---- MODULE Spec2Model ----
(***************************************************************************)
(* Notes pipeline of the classmate backend: Text Tools, Router, Summary,   *)
(* KeyPoints, ActionItems, Evaluator, Refiner, the NotesOrchestrator and   *)
(* the AgentMemory cache over its MemoryStore.                             *)
(*                                                                         *)
(* Text is a TLA+ string; characters are its length-1 substrings.          *)
(***************************************************************************)
EXTENDS Integers, Sequences, FiniteSets, TLC

(***************************************************************************)
(* Python str / re primitives used by the agents and tools                 *)
(***************************************************************************)

UpperAlpha == "ABCDEFGHIJKLMNOPQRSTUVWXYZ"
LowerAlpha == "abcdefghijklmnopqrstuvwxyz"
Digits == "0123456789"

Ch(s, i) == SubSeq(s, i, i)

CharsOf(s) == {Ch(s, i) : i \in 1..Len(s)}

UpperChars == CharsOf(UpperAlpha)
LowerChars == CharsOf(LowerAlpha)
DigitChars == CharsOf(Digits)

\* str.lower() and str.upper() on the letters
ToLower == [c \in UpperChars |-> Ch(LowerAlpha, CHOOSE i \in 1..Len(UpperAlpha) : Ch(UpperAlpha, i) = c)]
ToUpper == [c \in LowerChars |-> Ch(UpperAlpha, CHOOSE i \in 1..Len(LowerAlpha) : Ch(LowerAlpha, i) = c)]

IsUpper(c) == c \in UpperChars
IsLower(c) == c \in LowerChars
IsDigit(c) == c \in DigitChars

\* \s of the re module and the characters str.strip() removes
IsSpace(c) == c \in {" ", "\n", "\t"}

\* \w of the re module
IsWordChar(c) == IsUpper(c) \/ IsLower(c) \/ IsDigit(c) \/ c = "_"

LowerCh(c) == IF IsUpper(c) THEN ToLower[c] ELSE c
UpperCh(c) == IF IsLower(c) THEN ToUpper[c] ELSE c

\* str.lower(), by halves
RECURSIVE StrLower(_)
StrLower(s) ==
    IF Len(s) = 0 THEN ""
    ELSE IF Len(s) = 1 THEN LowerCh(s)
    ELSE StrLower(SubSeq(s, 1, Len(s) \div 2)) \o StrLower(SubSeq(s, Len(s) \div 2 + 1, Len(s)))

RECURSIVE LStrip(_)
LStrip(s) == IF s # "" /\ IsSpace(Head(s)) THEN LStrip(Tail(s)) ELSE s

RECURSIVE RStrip(_)
RStrip(s) ==
    IF s # "" /\ IsSpace(Ch(s, Len(s))) THEN RStrip(SubSeq(s, 1, Len(s) - 1)) ELSE s

Strip(s) == RStrip(LStrip(s))

\* Python's  k in s  on strings
Contains(s, k) ==
    \E i \in 1..(Len(s) - Len(k) + 1) : SubSeq(s, i, i + Len(k) - 1) = k

\* Python's  sep.join(parts)
RECURSIVE Join(_, _)
Join(parts, sep) ==
    IF parts = <<>> THEN ""
    ELSE IF Len(parts) = 1 THEN parts[1]
    ELSE parts[1] \o sep \o Join(Tail(parts), sep)

\* Python's  xs[:n]
Take(xs, n) == SubSeq(xs, 1, IF Len(xs) < n THEN Len(xs) ELSE n)

Min(a, b) == IF a < b THEN a ELSE b

IsSentenceEnd(c) == c \in {".", "!", "?"}

\* first index >= i of s that is not whitespace (Len(s) + 1 if none)
RECURSIVE SkipSpace(_, _)
SkipSpace(s, i) ==
    IF i <= Len(s) /\ IsSpace(Ch(s, i)) THEN SkipSpace(s, i + 1) ELSE i

\* least and greatest member of a set of positions (0 for the empty set)
MinOf(S) == IF S = {} THEN 0 ELSE CHOOSE j \in S : \A k \in S : j <= k
MaxOf(S) == IF S = {} THEN 0 ELSE CHOOSE j \in S : \A k \in S : k <= j

\* the first index >= i at which (?<=[.!?])\s+ matches: a whitespace character
\* that directly follows a sentence-ending character (0 if there is none)
NextCut(s, i) ==
    MinOf({j \in i..Len(s) : IsSpace(Ch(s, j)) /\ j > 1 /\ IsSentenceEnd(Ch(s, j - 1))})

\* re.split(r"(?<=[.!?])\s+", s) from index from on, the next match being at
\* cut: the pieces between the matches, each match a whole whitespace run
RECURSIVE ReSplit(_, _, _)
ReSplit(s, from, cut) ==
    IF cut = 0 THEN <<SubSeq(s, from, Len(s))>>
    ELSE <<SubSeq(s, from, cut - 1)>>
         \o ReSplit(s, SkipSpace(s, cut), NextCut(s, SkipSpace(s, cut)))

RECURSIVE StripNonEmpty(_)
StripNonEmpty(parts) ==
    IF parts = <<>> THEN <<>>
    ELSE IF Strip(parts[1]) # ""
         THEN <<Strip(parts[1])>> \o StripNonEmpty(Tail(parts))
         ELSE StripNonEmpty(Tail(parts))

\* [s.strip() for s in re.split(r"(?<=[.!?])\s+", transcript.strip()) if s.strip()]
SplitSentences(s) == StripNonEmpty(ReSplit(s, 1, NextCut(s, 1)))

Sentences(transcript) == SplitSentences(Strip(transcript))

\* s[0].upper() + s[1:] if s else s
Cleaned(s) == IF s = "" THEN s ELSE UpperCh(Head(s)) \o Tail(s)

\* any(k in s for k in keywords)
ContainsAny(s, keywords) == \E j \in 1..Len(keywords) : Contains(s, keywords[j])

(***************************************************************************)
(* Text Tools (agents/tools.py)                                            *)
(***************************************************************************)

\* the signals table of classify_transcript, in dict (declaration) order
Signals == <<
    [label |-> "meeting",
     keywords |-> <<"agenda", "minutes", "action item", "next steps", "follow up", "deadline">>],
    [label |-> "lecture",
     keywords |-> <<"chapter", "lecture", "professor", "today we will", "slides", "syllabus">>],
    [label |-> "interview",
     keywords |-> <<"tell me about", "walk me through", "why did you", "can you explain">>] >>

\* number of keywords of the list that occur in text
RECURSIVE CountHits(_, _)
CountHits(text, keywords) ==
    IF keywords = <<>> THEN 0
    ELSE (IF Contains(text, keywords[1]) THEN 1 ELSE 0) + CountHits(text, Tail(keywords))

\* the scores dict for the lower-cased text
ScoresOf(text) ==
    [l \in {Signals[j].label : j \in 1..Len(Signals)} |->
        CountHits(text, Signals[CHOOSE j \in 1..Len(Signals) : Signals[j].label = l].keywords)]

Scores(transcript) == ScoresOf(StrLower(transcript))

\* BestIndex taking the last item whose score is maximal
BestIndex_LastMax(scores) ==
    CHOOSE j \in 1..Len(Signals) :
        /\ \A k \in 1..Len(Signals) : scores[Signals[k].label] <= scores[Signals[j].label]
        /\ \A k \in (j + 1)..Len(Signals) : scores[Signals[k].label] < scores[Signals[j].label]

\* max(scores.items(), key=lambda kv: kv[1]): the first item, in dict order,
\* whose score is maximal
BestIndex(scores) ==
    CHOOSE j \in 1..Len(Signals) :
        /\ \A k \in 1..Len(Signals) : scores[Signals[k].label] <= scores[Signals[j].label]
        /\ \A k \in 1..(j - 1) : scores[Signals[k].label] < scores[Signals[j].label]

ClassifyLabel(scores) ==
    IF scores[Signals[BestIndex(scores)].label] > 0
    THEN Signals[BestIndex(scores)].label
    ELSE "generic"

\* the ToolResult of classify_transcript for the scores
ClassifyResult(scores, length_chars) ==
    [name |-> "classify_transcript",
     output |-> [label |-> ClassifyLabel(scores), scores |-> scores],
     meta |-> [length_chars |-> length_chars]]

classify_transcript(transcript) == ClassifyResult(Scores(transcript), Len(transcript))

\* the character class [a-zA-Z0-9\-']
IsEntityChar(c) == IsUpper(c) \/ IsLower(c) \/ IsDigit(c) \/ c = "-" \/ c = "'"

\* \b between index e and e + 1 (e = 0: start of text)
IsBoundary(s, e) ==
    (e >= 1 /\ IsWordChar(Ch(s, e))) # (e < Len(s) /\ IsWordChar(Ch(s, e + 1)))

\* last index of the run of entity characters that starts at i (i - 1 if none)
RECURSIVE RunEnd(_, _)
RunEnd(s, i) ==
    IF i <= Len(s) /\ IsEntityChar(Ch(s, i)) THEN RunEnd(s, i + 1) ELSE i - 1

\* end index of the match of \b[A-Z][a-zA-Z0-9\-']{2,}\b that starts at i, or
\* 0: the greedy run, backtracked to the longest prefix ending on a \b
EntityMatchEnd(s, i) ==
    IF IsUpper(Ch(s, i)) /\ IsBoundary(s, i - 1)
    THEN MaxOf({e \in (i + 2)..RunEnd(s, i + 1) : IsBoundary(s, e)})
    ELSE 0

\* the first index >= i at which the entity pattern matches (0 if none)
NextEntity(s, i) == MinOf({j \in i..Len(s) : EntityMatchEnd(s, j) > 0})

\* the matches from the one that starts at index start (0: none) and ends at
\* index end on
RECURSIVE EntitiesFrom(_, _, _)
EntitiesFrom(s, start, end) ==
    IF start = 0 THEN <<>>
    ELSE <<SubSeq(s, start, end)>>
         \o EntitiesFrom(s, NextEntity(s, end + 1),
                         IF NextEntity(s, end + 1) = 0 THEN 0
                         ELSE EntityMatchEnd(s, NextEntity(s, end + 1)))

\* re.findall: the non-overlapping matches from index i on, left to right
FindEntities(s, i) ==
    EntitiesFrom(s, NextEntity(s, i),
                 IF NextEntity(s, i) = 0 THEN 0 ELSE EntityMatchEnd(s, NextEntity(s, i)))

\* freq[c] = freq.get(c, 0) + 1, the dict kept as its items in insertion order
FreqAdd(freq, c) ==
    IF \E j \in 1..Len(freq) : freq[j].text = c
    THEN [j \in 1..Len(freq) |->
            IF freq[j].text = c THEN [text |-> c, count |-> freq[j].count + 1] ELSE freq[j]]
    ELSE Append(freq, [text |-> c, count |-> 1])

RECURSIVE Freq(_, _)
Freq(candidates, freq) ==
    IF candidates = <<>> THEN freq ELSE Freq(Tail(candidates), FreqAdd(freq, candidates[1]))

\* insert item into a list sorted by count descending, after its equals
RECURSIVE InsertByCount(_, _)
InsertByCount(sorted, item) ==
    IF sorted = <<>> THEN <<item>>
    ELSE IF sorted[1].count >= item.count
         THEN <<sorted[1]>> \o InsertByCount(Tail(sorted), item)
         ELSE <<item>> \o sorted

\* sorted(freq.items(), key=lambda kv: kv[1], reverse=True): stable
RECURSIVE SortByCount(_, _)
SortByCount(items, sorted) ==
    IF items = <<>> THEN sorted ELSE SortByCount(Tail(items), InsertByCount(sorted, items[1]))

DefaultMaxItems == 25

\* the ToolResult of extract_entities for the regex matches
EntitiesResult(candidates) ==
    [name |-> "extract_entities",
     output |-> [entities |->
         Take(SortByCount(Freq(candidates, <<>>), <<>>), DefaultMaxItems)],
     meta |-> [candidates |-> Len(candidates)]]

extract_entities(transcript) == EntitiesResult(FindEntities(transcript, 1))

ToolVerbs ==
    <<"should", "must", "need to", "have to", "will", "plan to", "decide", "schedule",
      "follow up", "email">>

\* the members of list that occur in text, in list order
RECURSIVE Hits(_, _)
Hits(text, list) ==
    IF list = <<>> THEN <<>>
    ELSE (IF Contains(text, list[1]) THEN <<list[1]>> ELSE <<>>) \o Hits(text, Tail(list))

\* the ToolResult of extract_action_verbs for the hits
VerbsResult(hits) ==
    [name |-> "extract_action_verbs",
     output |-> [verbs |-> Take(hits, DefaultMaxItems)],
     meta |-> [unique_hits |-> Len(hits)]]

extract_action_verbs(transcript) == VerbsResult(Hits(StrLower(transcript), ToolVerbs))

(***************************************************************************)
(* Bounds and inputs                                                       *)
(***************************************************************************)

\* times the store goes from available to failing or back
MaxFlips == 1

Sessions == {"s1", "s2"}

\* scenario 1 of the spec: label meeting, two action verbs
T_Meeting ==
    "The meeting covered important decisions. We must finish the report by Friday. Remember to follow up with the client."

\* label lecture, one action verb, four sentences
T_Lecture ==
    "Today we will review the chapter.  The Professor posted slides!\nPlease note the main formula. Ask Professor Lee."

\* label interview, no action verb of the tool table
T_Interview == "Tell me about Acme. Why did you leave Acme?"

\* label generic, fewer than two action verbs
T_Generic == " hello there "

\* label generic, exactly two action verbs of the tool table
T_Verbs == "we should call Bob-Smith. bob must reply today."

\* nine distinct sentences that each contain a key-point keyword
T_NineKeys ==
    "Key item one. Key item two. Key item three. Key item four. Key item five. Key item six. Key item seven. Key item eight. Key item nine."

\* only whitespace
T_Blank == " \n "

Transcripts ==
    {"", T_Blank, T_Generic, T_Verbs, T_Interview, T_Lecture, T_Meeting, T_NineKeys}

(***************************************************************************)
(* Memory Store (agents/memory_store.py) and Session Memory                *)
(* (agents/memory.py).  A world w is [memory, store, clock]: the           *)
(* AgentMemory fields, the two SQLite tables and the wall clock.  up says  *)
(* whether the store's operations succeed or raise.                        *)
(***************************************************************************)

\* d[k] = v on a dict
DictPut(d, k, v) == [x \in (DOMAIN d) \cup {k} |-> IF x = k THEN v ELSE d[x]]

EmptyDict == [x \in {} |-> x]

\* json.dumps(value, default=str) and json.loads
JsonDumps(v) == <<"json", v>>
JsonLoads(j) == j[2]

\* datetime.isoformat and datetime.fromisoformat
IsoFormat(t) == <<"iso", t>>
FromIsoFormat(x) == x[2]

\* StorePutKv that inserts a row and leaves an existing one as it is
StorePutKv_InsertOnly(store, session_id, key, value, now) ==
    [store EXCEPT !.agent_kv[session_id] =
        IF key \in DOMAIN @ THEN @
        ELSE DictPut(@, key, [value_json |-> JsonDumps(value), updated_at |-> IsoFormat(now)])]

\* SQLiteMemoryStore.put_kv: upsert of the row (session_id, key)
StorePutKv(store, session_id, key, value, now) ==
    [store EXCEPT !.agent_kv[session_id] =
        DictPut(@, key, [value_json |-> JsonDumps(value), updated_at |-> IsoFormat(now)])]

\* SQLiteMemoryStore.add_event: one more row, id = its position
StoreAddEvent(store, session_id, event_type, payload, created_at) ==
    [store EXCEPT !.agent_events =
        Append(@, [session_id |-> session_id, type |-> event_type,
                   payload_json |-> JsonDumps(payload),
                   created_at |-> IsoFormat(created_at)])]

\* SQLiteMemoryStore.load_kv
StoreLoadKv(store, session_id) ==
    [k \in DOMAIN store.agent_kv[session_id] |->
        JsonLoads(store.agent_kv[session_id][k].value_json)]

\* SQLiteMemoryStore.get_kv (None is the string "None")
StoreGetKv(store, session_id, key) ==
    IF key \in DOMAIN store.agent_kv[session_id]
    THEN JsonLoads(store.agent_kv[session_id][key].value_json)
    ELSE "None"

\* SQLiteMemoryStore.load_events: the session's rows, ORDER BY id ASC
RECURSIVE StoreLoadEvents(_, _)
StoreLoadEvents(rows, session_id) ==
    IF rows = <<>> THEN <<>>
    ELSE (IF rows[1].session_id = session_id
          THEN <<[type |-> rows[1].type, payload |-> JsonLoads(rows[1].payload_json),
                  created_at |-> rows[1].created_at]>>
          ELSE <<>>) \o StoreLoadEvents(Tail(rows), session_id)

\* the MemoryEvent built from a loaded row
LoadedEvent(e) ==
    [type |-> e.type, payload |-> e.payload, created_at |-> FromIsoFormat(e.created_at)]

\* the operations of a MemoryStore; each call of one either succeeds or raises
StoreOps == {"load_kv", "load_events", "put_kv", "add_event"}

\* dict.update(kv)
DictUpdate(d, kv) ==
    [k \in (DOMAIN d) \cup (DOMAIN kv) |-> IF k \in DOMAIN kv THEN kv[k] ELSE d[k]]

\* Hydrate marking the session loaded only when the store returned something
Hydrate_UnlessEmpty(w, session_id, kv, loaded) ==
    [w EXCEPT
        !.memory.loaded_sessions =
            IF kv = EmptyDict /\ loaded = <<>> THEN @ ELSE @ \cup {session_id},
        !.loads[session_id] = [load_kv |-> @.load_kv + 1, load_events |-> @.load_events + 1],
        !.memory.kv_by_session[session_id] = DictUpdate(@, kv),
        !.memory.events_by_session[session_id] =
            @ \o [j \in 1..Len(loaded) |-> LoadedEvent(loaded[j])]]

\* AgentMemory._ensure_loaded, lines 27-52: the session is marked loaded,
\* load_kv and load_events are each called once, and what they returned
\* (nothing when they raised) is put in the cache
Hydrate(w, session_id, kv, loaded) ==
    [w EXCEPT
        !.memory.loaded_sessions = @ \cup {session_id},
        !.loads[session_id] = [load_kv |-> @.load_kv + 1, load_events |-> @.load_events + 1],
        !.memory.kv_by_session[session_id] = DictUpdate(@, kv),
        !.memory.events_by_session[session_id] =
            @ \o [j \in 1..Len(loaded) |-> LoadedEvent(loaded[j])]]

\* EnsureLoaded with both loads in one try block: load_events is not called
\* once load_kv has raised
EnsureLoaded_SingleTry(w, session_id, up) ==
    IF session_id \in w.memory.loaded_sessions THEN w
    ELSE Hydrate(w, session_id,
                 IF "load_kv" \in up THEN StoreLoadKv(w.store, session_id) ELSE EmptyDict,
                 IF {"load_kv", "load_events"} \subseteq up
                 THEN StoreLoadEvents(w.store.agent_events, session_id) ELSE <<>>)

\* AgentMemory._ensure_loaded; up is the set of store operations that succeed
EnsureLoaded(w, session_id, up) ==
    IF session_id \in w.memory.loaded_sessions THEN w
    ELSE Hydrate(w, session_id,
                 IF "load_kv" \in up THEN StoreLoadKv(w.store, session_id) ELSE EmptyDict,
                 IF "load_events" \in up
                 THEN StoreLoadEvents(w.store.agent_events, session_id) ELSE <<>>)

\* PutLoaded writing the store first, the cache only when that succeeded
PutLoaded_MirrorFirst(w, session_id, key, value, up) ==
    [w EXCEPT
        !.memory.kv_by_session[session_id] =
            IF "put_kv" \in up THEN DictPut(@, key, value) ELSE @,
        !.store = IF "put_kv" \in up THEN StorePutKv(@, session_id, key, value, w.clock) ELSE @,
        !.clock = IF "put_kv" \in up THEN @ + 1 ELSE @]

\* PutLoaded keeping the value a key already has in the cache
PutLoaded_KeepFirst(w, session_id, key, value, up) ==
    [w EXCEPT
        !.memory.kv_by_session[session_id] =
            IF key \in DOMAIN @ THEN @ ELSE DictPut(@, key, value),
        !.store = IF "put_kv" \in up THEN StorePutKv(@, session_id, key, value, w.clock) ELSE @,
        !.clock = IF "put_kv" \in up THEN @ + 1 ELSE @]

\* PutLoaded with a cache keyed by the key alone
PutLoaded_AllSessions(w, session_id, key, value, up) ==
    [w EXCEPT
        !.memory.kv_by_session = [s \in DOMAIN @ |-> DictPut(@[s], key, value)],
        !.store = IF "put_kv" \in up THEN StorePutKv(@, session_id, key, value, w.clock) ELSE @,
        !.clock = IF "put_kv" \in up THEN @ + 1 ELSE @]

\* AgentMemory.put, lines 56-61, on a loaded session: the cache entry, then
\* the mirrored write
PutLoaded(w, session_id, key, value, up) ==
    [w EXCEPT
        !.memory.kv_by_session[session_id] = DictPut(@, key, value),
        !.store = IF "put_kv" \in up THEN StorePutKv(@, session_id, key, value, w.clock) ELSE @,
        !.clock = IF "put_kv" \in up THEN @ + 1 ELSE @]

\* AgentMemory.put
MemPut(w, session_id, key, value, up) ==
    PutLoaded(EnsureLoaded(w, session_id, up), session_id, key, value, up)

\* dict.get(key, default)
DictGet(d, key, default) == IF key \in DOMAIN d THEN d[key] ELSE default

\* AgentMemory.get: the value (default when the key is absent)
MemGet(w, session_id, key, default, up) ==
    DictGet(EnsureLoaded(w, session_id, up).memory.kv_by_session[session_id], key, default)

\* AddEventLoaded putting the new event first
AddEventLoaded_Prepend(w, session_id, event_type, payload, up) ==
    [w EXCEPT
        !.memory.events_by_session[session_id] =
            <<[type |-> event_type, payload |-> payload, created_at |-> w.clock]>> \o @,
        !.clock = @ + 1,
        !.store = IF "add_event" \in up
                  THEN StoreAddEvent(@, session_id, event_type, payload, w.clock) ELSE @]

\* AgentMemory.add_event, lines 69-75, on a loaded session: the event is
\* created and appended, then mirrored with its created_at
AddEventLoaded(w, session_id, event_type, payload, up) ==
    [w EXCEPT
        !.memory.events_by_session[session_id] =
            Append(@, [type |-> event_type, payload |-> payload, created_at |-> w.clock]),
        !.clock = @ + 1,
        !.store = IF "add_event" \in up
                  THEN StoreAddEvent(@, session_id, event_type, payload, w.clock) ELSE @]

\* AgentMemory.add_event
MemAddEvent(w, session_id, event_type, payload, up) ==
    AddEventLoaded(EnsureLoaded(w, session_id, up), session_id, event_type, payload, up)

\* AgentMemory.events
MemEvents(w, session_id, up) ==
    EnsureLoaded(w, session_id, up).memory.events_by_session[session_id]

\* the dict of one event in a snapshot
SnapshotEvent(e) ==
    [type |-> e.type, payload |-> e.payload, created_at |-> IsoFormat(e.created_at)]

\* SnapshotLoaded listing the newest event first
SnapshotLoaded_NewestFirst(m, session_id) ==
    [kv |-> m.kv_by_session[session_id],
     events |-> [j \in 1..Len(m.events_by_session[session_id]) |->
                    SnapshotEvent(m.events_by_session[session_id]
                                    [Len(m.events_by_session[session_id]) + 1 - j])]]

\* AgentMemory.snapshot, lines 83-89, on a loaded session
SnapshotLoaded(m, session_id) ==
    [kv |-> m.kv_by_session[session_id],
     events |-> [j \in 1..Len(m.events_by_session[session_id]) |->
                    SnapshotEvent(m.events_by_session[session_id][j])]]

\* AgentMemory.snapshot
MemSnapshot(w, session_id, up) ==
    SnapshotLoaded(EnsureLoaded(w, session_id, up).memory, session_id)

(***************************************************************************)
(* Stage agents (agents/router_agent.py, agents/note_agents.py).  An agent *)
(* maps (world, session, transcript, context) to [w, output, meta].        *)
(***************************************************************************)

\* PlanHints with the action-verb threshold off by one
PlanHints_ThreeVerbs(label, verbs) ==
    [label |-> label,
     prefer_action_items |-> (label \in {"meeting", "interview"}) \/ Len(verbs) >= 3,
     prefer_key_points |-> label \in {"lecture", "meeting"},
     prefer_summary |-> TRUE]

\* PlanHints leaving the summary to the caller's flag
PlanHints_SummaryUnasked(label, verbs) ==
    [label |-> label,
     prefer_action_items |-> (label \in {"meeting", "interview"}) \/ Len(verbs) >= 2,
     prefer_key_points |-> label \in {"lecture", "meeting"},
     prefer_summary |-> FALSE]

\* the plan_hints dict of RouterAgent.run
PlanHints(label, verbs) ==
    [label |-> label,
     prefer_action_items |-> (label \in {"meeting", "interview"}) \/ Len(verbs) >= 2,
     prefer_key_points |-> label \in {"lecture", "meeting"},
     prefer_summary |-> TRUE]

\* RouterAgent.run, lines 25-27: one tool_call event per tool
RouterEvents(w, session_id, classification, entities, action_verbs, up) ==
    MemAddEvent(
        MemAddEvent(
            MemAddEvent(w, session_id, "tool_call",
                [tool |-> classification.name, result |-> classification.output], up),
            session_id, "tool_call",
            [tool |-> entities.name, result |-> entities.output], up),
        session_id, "tool_call",
        [tool |-> action_verbs.name, result |-> action_verbs.output], up)

\* the Router's puts without the one of the plan hints
RouterPuts_WithoutHints(w, session_id, classification, entities, action_verbs, plan_hints, up) ==
    MemPut(
        MemPut(
            MemPut(w, session_id, "classification", classification.output, up),
            session_id, "entities", entities.output, up),
        session_id, "action_verbs", action_verbs.output, up)

\* RouterAgent.run, lines 45-48: the four values stored in the session
RouterPuts(w, session_id, classification, entities, action_verbs, plan_hints, up) ==
    MemPut(
        MemPut(
            MemPut(
                MemPut(w, session_id, "classification", classification.output, up),
                session_id, "entities", entities.output, up),
            session_id, "action_verbs", action_verbs.output, up),
        session_id, "plan_hints", plan_hints, up)

\* RouterAgent.run, lines 25-58, from the three tool results
RouterWith(w, session_id, classification, entities, action_verbs, plan_hints, up) ==
    [w |-> RouterPuts(
               RouterEvents(w, session_id, classification, entities, action_verbs, up),
               session_id, classification, entities, action_verbs, plan_hints, up),
     output |-> [classification |-> classification.output,
                 entities |-> entities.output,
                 action_verbs |-> action_verbs.output,
                 plan_hints |-> plan_hints],
     meta |-> [label |-> classification.output.label]]

\* RouterAgent.run, lines 33-42, from the tool results
RouterHinted(w, session_id, classification, entities, action_verbs, up) ==
    RouterWith(w, session_id, classification, entities, action_verbs,
               PlanHints(classification.output.label, action_verbs.output.verbs), up)

RouterAgent(w, session_id, transcript, up) ==
    RouterHinted(w, session_id, classify_transcript(transcript),
                 extract_entities(transcript), extract_action_verbs(transcript), up)

\* sentences the summary of a longer transcript is made of
SummarySentences == 3

\* SummaryText returning a short transcript with its outer whitespace
SummaryText_Untrimmed(transcript, sentences) ==
    IF Len(sentences) <= 2
    THEN transcript
    ELSE Strip(Join(Take(sentences, SummarySentences), " "))

\* SummaryText keeping the whole transcript up to three sentences
SummaryText_UpToThree(transcript, sentences) ==
    IF Len(sentences) <= SummarySentences
    THEN Strip(transcript)
    ELSE Strip(Join(Take(sentences, SummarySentences), " "))

\* the summary of SummaryAgent.run from the transcript and its sentences
SummaryText(transcript, sentences) ==
    IF Len(sentences) <= 2
    THEN Strip(transcript)
    ELSE Strip(Join(Take(sentences, SummarySentences), " "))

\* SummaryAgent.run, lines 19-20, from the summary and the sentence count
SummaryResult(w, session_id, summary, sentence_count, up) ==
    [w |-> MemAddEvent(w, session_id, "summary_generated", [length |-> Len(summary)], up),
     output |-> summary,
     meta |-> [sentences_used |-> Min(sentence_count, SummarySentences)]]

\* SummaryAgent.run, lines 15-20, from the sentences
SummaryOf(w, session_id, transcript, sentences, up) ==
    SummaryResult(w, session_id, SummaryText(transcript, sentences), Len(sentences), up)

SummaryAgent(w, session_id, transcript, up) ==
    SummaryOf(w, session_id, transcript, Sentences(transcript), up)

ImportantKeywords ==
    <<"important", "key", "main", "primary", "essential", "critical", "remember", "note",
      "pay attention", "focus on", "highlight">>

ActionVerbs ==
    <<"should", "must", "need to", "have to", "will", "can", "do", "make", "create",
      "implement", "complete", "finish">>

\* minimum length (exclusive) of a kept key point or action item
MinItemLen == 10

\* items a specialist returns at most
MaxItems == 5

\* Candidates keeping a sentence of MinItemLen characters
RECURSIVE Candidates_AtLeast(_, _)
Candidates_AtLeast(sentences, keywords) ==
    IF sentences = <<>> THEN <<>>
    ELSE (IF /\ ContainsAny(StrLower(sentences[1]), keywords)
             /\ Len(Cleaned(sentences[1])) >= MinItemLen
          THEN <<Cleaned(sentences[1])>>
          ELSE <<>>) \o Candidates_AtLeast(Tail(sentences), keywords)

\* the loop shared by KeyPointsAgent.run and ActionItemsAgent.run: the cleaned
\* sentences that contain a keyword and are longer than MinItemLen
RECURSIVE Candidates(_, _)
Candidates(sentences, keywords) ==
    IF sentences = <<>> THEN <<>>
    ELSE (IF /\ ContainsAny(StrLower(sentences[1]), keywords)
             /\ Len(Cleaned(sentences[1])) > MinItemLen
          THEN <<Cleaned(sentences[1])>>
          ELSE <<>>) \o Candidates(Tail(sentences), keywords)

\* KeyPoints capped one above the Evaluator's limit
KeyPoints_UpToEight(sentences) == Take(Candidates(sentences, ImportantKeywords), 8)

\* KeyPoints without the cap
KeyPoints_Uncapped(sentences) == Candidates(sentences, ImportantKeywords)

\* key_points of KeyPointsAgent.run from the transcript's sentences
KeyPoints(sentences) == Take(Candidates(sentences, ImportantKeywords), MaxItems)

\* KeyPointsAgent.run and ActionItemsAgent.run, their last three lines: the
\* audit event with the count, and the AgentResult
ListResult(w, session_id, event_type, items, sentence_count, up) ==
    [w |-> MemAddEvent(w, session_id, event_type, [count |-> Len(items)], up),
     output |-> items,
     meta |-> [candidates |-> sentence_count]]

\* KeyPointsAgent.run from the sentences
KeyPointsOf(w, session_id, sentences, up) ==
    ListResult(w, session_id, "key_points_generated", KeyPoints(sentences),
               Len(sentences), up)

KeyPointsAgent(w, session_id, transcript, up) ==
    KeyPointsOf(w, session_id, Sentences(transcript), up)

\* action_items of ActionItemsAgent.run from the transcript's sentences
ActionItems(sentences) == Take(Candidates(sentences, ActionVerbs), MaxItems)

\* ActionItemsAgent.run from the sentences
ActionItemsOf(w, session_id, sentences, up) ==
    ListResult(w, session_id, "action_items_generated", ActionItems(sentences),
               Len(sentences), up)

ActionItemsAgent(w, session_id, transcript, up) ==
    ActionItemsOf(w, session_id, Sentences(transcript), up)

\* (context or {}).get(key) or []
CtxList(context, key) == IF key \in DOMAIN context THEN context[key] ELSE <<>>

\* key-points and action-items counts above which the Evaluator raises an issue
MaxListLen == 7

\* EvaluatorIssues raising the list issues from MaxListLen items on
EvaluatorIssues_AtLeast(context) ==
    (IF "summary" \in DOMAIN context /\ Len(Strip(context["summary"])) = 0
     THEN <<[type |-> "empty_summary"]>> ELSE <<>>)
    \o (IF Len(CtxList(context, "key_points")) >= MaxListLen
        THEN <<[type |-> "too_many_key_points", count |-> Len(CtxList(context, "key_points"))]>>
        ELSE <<>>)
    \o (IF Len(CtxList(context, "action_items")) >= MaxListLen
        THEN <<[type |-> "too_many_action_items",
                count |-> Len(CtxList(context, "action_items"))]>>
        ELSE <<>>)

\* the issues list of EvaluatorAgent.run
EvaluatorIssues(context) ==
    (IF "summary" \in DOMAIN context /\ Len(Strip(context["summary"])) = 0
     THEN <<[type |-> "empty_summary"]>> ELSE <<>>)
    \o (IF Len(CtxList(context, "key_points")) > MaxListLen
        THEN <<[type |-> "too_many_key_points", count |-> Len(CtxList(context, "key_points"))]>>
        ELSE <<>>)
    \o (IF Len(CtxList(context, "action_items")) > MaxListLen
        THEN <<[type |-> "too_many_action_items",
                count |-> Len(CtxList(context, "action_items"))]>>
        ELSE <<>>)

\* EvaluatorAgent.run, lines 84-85, from the issues
EvaluatorResult(w, session_id, issues, up) ==
    [w |-> MemAddEvent(w, session_id, "evaluation_done", [issues |-> issues], up),
     output |-> [issues |-> issues],
     meta |-> [issues_count |-> Len(issues)]]

\* EvaluatorAgent numbering its output by the evaluations the session has
\* seen
EvaluatorAgent_Numbered(w, session_id, context, up) ==
    [EvaluatorResult(w, session_id, EvaluatorIssues(context), up) EXCEPT
        !.output = [issues |-> @.issues,
                    evaluation_no |-> Cardinality(
                        {j \in 1..Len(MemEvents(w, session_id, up)) :
                            MemEvents(w, session_id, up)[j].type = "evaluation_done"})]]

\* EvaluatorAgent without its audit event
EvaluatorAgent_Silent(w, session_id, context, up) ==
    [EvaluatorResult(w, session_id, EvaluatorIssues(context), up) EXCEPT !.w = w]

EvaluatorAgent(w, session_id, context, up) ==
    EvaluatorResult(w, session_id, EvaluatorIssues(context), up)

\* entities the Refiner looks for in the summary, and entities it names
TopEntitiesChecked == 5
TopEntitiesNamed == 3

\* items a trimmed list keeps
TrimTo == 5

\* sentences a regenerated summary is made of
FillSentences == 2

\* RefinerAgent.run, lines 114-115: the summary regenerated from the transcript
FilledSummary(transcript, sentences) ==
    Strip(IF sentences # <<>>
          THEN Join(Take(sentences, FillSentences), " ")
          ELSE Strip(transcript))

\* RefineIssue filling an empty summary with a placeholder text
RefineIssue_Placeholder(a, issue, transcript) ==
    IF issue.type = "empty_summary"
    THEN [a EXCEPT !.summary = "No content.",
                   !.applied = Append(@, [type |-> "refiner_filled_summary"])]
    ELSE a

\* the body of the Refiner's loop for one issue; a is [summary, key_points,
\* action_items, applied]
RefineIssue(a, issue, transcript) ==
    CASE issue.type = "empty_summary" ->
            [a EXCEPT !.summary = FilledSummary(transcript, Sentences(transcript)),
                      !.applied = Append(@, [type |-> "refiner_filled_summary"])]
      [] issue.type = "too_many_key_points" ->
            [a EXCEPT !.key_points = Take(@, TrimTo),
                      !.applied = Append(@, [type |-> "refiner_trim_key_points",
                                             to |-> TrimTo])]
      [] issue.type = "too_many_action_items" ->
            [a EXCEPT !.action_items = Take(@, TrimTo),
                      !.applied = Append(@, [type |-> "refiner_trim_action_items",
                                             to |-> TrimTo])]
      [] OTHER -> a

\* RefineIssues going through the issues from the last to the first
RECURSIVE RefineIssues_LastFirst(_, _, _)
RefineIssues_LastFirst(a, issues, transcript) ==
    IF issues = <<>> THEN a
    ELSE RefineIssues_LastFirst(RefineIssue(a, issues[Len(issues)], transcript),
                                SubSeq(issues, 1, Len(issues) - 1), transcript)

\* the Refiner's loop over the issues, in their order
RECURSIVE RefineIssues(_, _, _)
RefineIssues(a, issues, transcript) ==
    IF issues = <<>> THEN a
    ELSE RefineIssues(RefineIssue(a, issues[1], transcript), Tail(issues), transcript)

\* [e.get("text") for e in entities[:5] if e.get("text")]
RECURSIVE EntityTexts(_)
EntityTexts(entities) ==
    IF entities = <<>> THEN <<>>
    ELSE (IF entities[1].text # "" THEN <<entities[1].text>> ELSE <<>>)
         \o EntityTexts(Tail(entities))

\* EntityPolish looking in the summary only for the entities it would name
EntityPolish_NamedOnly(a, top_entities) ==
    IF /\ a.summary # ""
       /\ top_entities # <<>>
       /\ ~ \E j \in 1..Len(Take(top_entities, TopEntitiesNamed)) :
                Contains(a.summary, top_entities[j])
    THEN [a EXCEPT
            !.summary = @ \o " (Context: " \o Join(Take(top_entities, TopEntitiesNamed), ", ")
                          \o ".)",
            !.applied = Append(@, [type |-> "refiner_entity_context_added",
                                   entities |-> Take(top_entities, TopEntitiesNamed)])]
    ELSE a

\* the entity-aware polish at the end of RefinerAgent.run
EntityPolish(a, top_entities) ==
    IF /\ a.summary # ""
       /\ top_entities # <<>>
       /\ ~ \E j \in 1..Len(top_entities) : Contains(a.summary, top_entities[j])
    THEN [a EXCEPT
            !.summary = @ \o " (Context: " \o Join(Take(top_entities, TopEntitiesNamed), ", ")
                          \o ".)",
            !.applied = Append(@, [type |-> "refiner_entity_context_added",
                                   entities |-> Take(top_entities, TopEntitiesNamed)])]
    ELSE a

\* RefinerAgent.run up to its audit event: the refined artifact and the
\* corrections applied, from the context, the issues and the stored entities
Refine(context, transcript, entities) ==
    EntityPolish(
        RefineIssues(
            [summary |-> IF "summary" \in DOMAIN context THEN Strip(context["summary"]) ELSE "",
             key_points |-> CtxList(context, "key_points"),
             action_items |-> CtxList(context, "action_items"),
             applied |-> <<>>],
            IF "evaluator" \in DOMAIN context THEN context["evaluator"].issues ELSE <<>>,
            transcript),
        EntityTexts(Take(entities, TopEntitiesChecked)))

\* RefinerAgent.run, lines 132-136, from the refined artifact a
RefinerResult(w, session_id, a, top_entities, up) ==
    [w |-> MemAddEvent(w, session_id, "refiner_applied", [applied |-> a.applied], up),
     output |-> [summary |-> a.summary, key_points |-> a.key_points,
                 action_items |-> a.action_items],
     meta |-> [applied |-> a.applied,
               entities_used |-> Take(top_entities, TopEntitiesNamed)]]

\* RefinerAgent.run from the stored entities
RefinerOf(w, session_id, transcript, context, entities, up) ==
    RefinerResult(w, session_id, Refine(context, transcript, entities),
                  EntityTexts(Take(entities, TopEntitiesChecked)), up)

RefinerAgent(w, session_id, transcript, context, up) ==
    RefinerOf(EnsureLoaded(w, session_id, up), session_id, transcript, context,
              MemGet(w, session_id, "entities", [entities |-> <<>>], up).entities, up)

(***************************************************************************)
(* NotesOrchestrator (agents/orchestrator.py)                              *)
(***************************************************************************)

VARIABLES
    memory,         \* AgentMemory: events_by_session, kv_by_session, loaded_sessions
    store,          \* SQLiteMemoryStore: the tables agent_kv and agent_events
    clock,          \* datetime.utcnow()
    loads,          \* history: calls of load_kv and of load_events, per session
    storeUp,        \* the store operations that succeed; the others raise
    flips,          \* changes of storeUp so far
    pc,             \* position of the current call of run
    session_id,     \* arguments of the current call of run
    transcript,
    flags,
    router_result,  \* locals of the current call of run
    plan,
    step,           \* index in plan of the loop variable
    outputs,
    meta,
    result,         \* what run returned
    executed,       \* history: stages whose agent ran in this call, in order
    evals,          \* history: the Evaluator outputs of this call, in order
    ev0,            \* history: events the session held when this call began
    probe,          \* a stage called on its own: [fn, context] and, once it returned, out
    calls,          \* history: the operations called on the memory directly, in order
    earlier,        \* history: what the earlier calls of run with these arguments returned
    agents          \* NotesOrchestrator._agents: the registered stage names

vars ==
    <<memory, store, clock, loads, storeUp, flips, pc, session_id, transcript, flags,
      router_result, plan, step, outputs, meta, result, executed, evals, ev0, probe,
      calls, earlier, agents>>

World == [memory |-> memory, store |-> store, clock |-> clock, loads |-> loads]

SetWorld(w) ==
    /\ memory' = w.memory
    /\ store' = w.store
    /\ clock' = w.clock
    /\ loads' = w.loads

EmptyStore ==
    [agent_kv |-> [s \in Sessions |-> EmptyDict], agent_events |-> <<>>]

\* a store file left by an earlier process: one kv row and one event of s1
SeededStore ==
    StoreAddEvent(StorePutKv(EmptyStore, "s1", "note", "old", 0),
                  "s1", "seed", [n |-> 0], 0)

\* NotesOrchestrator.__init__: the six stage names registered
Registry == {"router", "summary", "key_points", "action_items", "evaluator", "refiner"}

Init ==
    /\ memory = [events_by_session |-> [s \in Sessions |-> <<>>],
                 kv_by_session |-> [s \in Sessions |-> EmptyDict],
                 loaded_sessions |-> {}]
    /\ store \in {EmptyStore, SeededStore}
    /\ clock = 1
    /\ loads = [s \in Sessions |-> [load_kv |-> 0, load_events |-> 0]]
    /\ storeUp \in {StoreOps, {}}
    /\ flips = 0
    /\ pc = "idle"
    /\ session_id = ""
    /\ transcript = ""
    /\ flags = [include_summary |-> FALSE, include_key_points |-> FALSE,
                include_action_items |-> FALSE]
    /\ router_result = EmptyDict
    /\ plan = <<>>
    /\ step = 0
    /\ outputs = EmptyDict
    /\ meta = EmptyDict
    /\ result = EmptyDict
    /\ executed = <<>>
    /\ evals = <<>>
    /\ ev0 = 0
    /\ probe = [fn |-> "none"]
    /\ calls = <<>>
    /\ earlier = <<>>
    /\ agents = Registry

\* BuildPlan appending key_points before summary
BuildPlan_KeyPointsFirst(f, plan_hints) ==
    <<"router">>
    \o (IF f.include_key_points \/ plan_hints.prefer_key_points THEN <<"key_points">> ELSE <<>>)
    \o (IF f.include_summary \/ plan_hints.prefer_summary THEN <<"summary">> ELSE <<>>)
    \o (IF f.include_action_items \/ plan_hints.prefer_action_items
        THEN <<"action_items">> ELSE <<>>)
    \o <<"evaluator", "refiner", "evaluator">>

\* run, lines 39-54: the plan from the caller's flags and the Router's hints
BuildPlan(f, plan_hints) ==
    <<"router">>
    \o (IF f.include_summary \/ plan_hints.prefer_summary THEN <<"summary">> ELSE <<>>)
    \o (IF f.include_key_points \/ plan_hints.prefer_key_points THEN <<"key_points">> ELSE <<>>)
    \o (IF f.include_action_items \/ plan_hints.prefer_action_items
        THEN <<"action_items">> ELSE <<>>)
    \o <<"evaluator", "refiner", "evaluator">>

\* LastIssues never seeing an issue
LastIssues_None(outs) == <<>>

\* run, lines 68-69: the issues of the latest Evaluator output
LastIssues(outs) ==
    IF "evaluator" \in DOMAIN outs THEN outs["evaluator"].issues ELSE <<>>

\* run, line 71: what a skipped Refiner leaves in meta
SkippedMeta(m) == DictPut(m, "refiner", [skipped |-> TRUE, reason |-> "no_issues"])

\* SkippedOutputs also clearing the key points
SkippedOutputs_Reset(outs) ==
    DictPut(DictPut(outs, "refiner", [skipped |-> TRUE]), "key_points", <<>>)

\* run, line 72: what a skipped Refiner leaves in the working context
SkippedOutputs(outs) == DictPut(outs, "refiner", [skipped |-> TRUE])

\* run, lines 75-81: self._agents[name].run(...)
RunAgent(name, w, sid, t, context, up) ==
    CASE name = "router" -> RouterAgent(w, sid, t, up)
      [] name = "summary" -> SummaryAgent(w, sid, t, up)
      [] name = "key_points" -> KeyPointsAgent(w, sid, t, up)
      [] name = "action_items" -> ActionItemsAgent(w, sid, t, up)
      [] name = "evaluator" -> EvaluatorAgent(w, sid, context, up)
      [] name = "refiner" -> RefinerAgent(w, sid, t, context, up)

\* ApplyRefiner writing the summary only
ApplyRefiner_SummaryOnly(outs, output) == DictPut(outs, "summary", output.summary)

\* run, lines 86-92: the Refiner's artifact written over the working context
ApplyRefiner(outs, output) ==
    DictPut(DictPut(DictPut(outs, "summary", output.summary),
                    "key_points", output.key_points),
            "action_items", output.action_items)

\* run, lines 82-92: the working context after the agent of stage name returned r
StoreOutput(outs, name, r) ==
    IF name = "refiner"
    THEN ApplyRefiner(DictPut(outs, name, r.output), r.output)
    ELSE DictPut(outs, name, r.output)

\* Result returning the Evaluator's meta as the evaluation
Result_MetaAsEvaluation(sid, outs, m, snapshot) ==
    [session_id |-> sid,
     summary |-> IF "summary" \in DOMAIN outs THEN outs["summary"] ELSE "None",
     key_points |-> CtxList(outs, "key_points"),
     action_items |-> CtxList(outs, "action_items"),
     evaluation |-> IF "evaluator" \in DOMAIN m THEN m["evaluator"] ELSE "None",
     agent_meta |-> m,
     memory |-> snapshot]

\* run, lines 94-102: the returned dict (None is the string "None")
Result(sid, outs, m, snapshot) ==
    [session_id |-> sid,
     summary |-> IF "summary" \in DOMAIN outs THEN outs["summary"] ELSE "None",
     key_points |-> CtxList(outs, "key_points"),
     action_items |-> CtxList(outs, "action_items"),
     evaluation |-> IF "evaluator" \in DOMAIN outs THEN outs["evaluator"] ELSE "None",
     agent_meta |-> m,
     memory |-> snapshot]

\* run, lines 23-37, on the memory and store w: entry and the Router's
\* execution
Invoke(w, sid, t, f, up) ==
    /\ "router" \in agents
    /\ \E r \in {RunAgent("router", w, sid, t, EmptyDict, up)} :
           /\ SetWorld(r.w)
           /\ router_result' = [output |-> r.output, meta |-> r.meta]
    /\ ev0' = Len(MemEvents(w, sid, up))
    /\ pc' = "routed"
    /\ session_id' = sid
    /\ transcript' = t
    /\ flags' = f
    /\ plan' = <<"router">>
    /\ step' = 0
    /\ outputs' = EmptyDict
    /\ meta' = EmptyDict
    /\ result' = EmptyDict
    /\ executed' = <<"router">>
    /\ evals' = <<>>
    /\ UNCHANGED <<flips, probe, calls, agents>>

\* run, lines 23-37: entry and the Router's execution
RunRouter(sid, t, f) ==
    /\ pc = "idle"
    /\ Invoke(World, sid, t, f, storeUp)
    /\ UNCHANGED <<storeUp, earlier>>

\* run, lines 38-60: the plan, its audit event, and the Router's entries
MakePlan ==
    /\ pc = "routed"
    /\ plan' = BuildPlan(flags, router_result.output.plan_hints)
    /\ SetWorld(MemAddEvent(World, session_id, "plan_created", [plan |-> plan'], storeUp))
    /\ outputs' = DictPut(EmptyDict, "router", router_result.output)
    /\ meta' = DictPut(EmptyDict, "router", router_result.meta)
    /\ step' = 1
    /\ pc' = "loop"
    /\ UNCHANGED <<storeUp, flips, session_id, transcript, flags, router_result,
                   result, executed, evals, ev0, probe,
                   calls, earlier, agents>>

\* run, lines 62-64: the loop passes over "router"
ContinueRouter ==
    /\ pc = "loop"
    /\ step <= Len(plan)
    /\ plan[step] = "router"
    /\ step' = step + 1
    /\ UNCHANGED <<memory, store, clock, loads, storeUp, flips, pc, session_id, transcript,
                   flags, router_result, plan, outputs, meta, result, executed, evals, ev0, probe,
                   calls, earlier, agents>>

\* run, lines 67-73: the Refiner is skipped when the Evaluator found no issue
SkipRefiner ==
    /\ pc = "loop"
    /\ step <= Len(plan)
    /\ plan[step] = "refiner"
    /\ LastIssues(outputs) = <<>>
    /\ meta' = SkippedMeta(meta)
    /\ outputs' = SkippedOutputs(outputs)
    /\ step' = step + 1
    /\ UNCHANGED <<memory, store, clock, loads, storeUp, flips, pc, session_id, transcript,
                   flags, router_result, plan, result, executed, evals, ev0, probe,
                   calls, earlier, agents>>

\* run, lines 75-92: the stage's agent runs on the working context
RunStage ==
    /\ pc = "loop"
    /\ step <= Len(plan)
    /\ plan[step] # "router"
    /\ ~ (plan[step] = "refiner" /\ LastIssues(outputs) = <<>>)
    /\ plan[step] \in agents
    /\ \E r \in {RunAgent(plan[step], World, session_id, transcript, outputs, storeUp)} :
           /\ SetWorld(r.w)
           /\ outputs' = StoreOutput(outputs, plan[step], r)
           /\ meta' = DictPut(meta, plan[step], r.meta)
           /\ evals' = IF plan[step] = "evaluator" THEN Append(evals, r.output) ELSE evals
    /\ executed' = Append(executed, plan[step])
    /\ step' = step + 1
    /\ UNCHANGED <<storeUp, flips, pc, session_id, transcript, flags, router_result,
                   plan, result, ev0, probe,
                   calls, earlier, agents>>

\* run, lines 94-102: the plan is exhausted, the result is returned
Return ==
    /\ pc = "loop"
    /\ step > Len(plan)
    /\ result' = Result(session_id, outputs, meta, MemSnapshot(World, session_id, storeUp))
    /\ SetWorld(EnsureLoaded(World, session_id, storeUp))
    /\ pc' = "done"
    /\ UNCHANGED <<storeUp, flips, session_id, transcript, flags, router_result,
                   plan, step, outputs, meta, executed, evals, ev0, probe,
                   calls, earlier, agents>>

\* the store becomes unavailable, or available again
StoreFlip ==
    /\ flips < MaxFlips
    /\ storeUp' = StoreOps \ storeUp
    /\ flips' = flips + 1
    /\ UNCHANGED <<memory, store, clock, loads, pc, session_id, transcript, flags,
                   router_result, plan, step, outputs, meta, result, executed, evals, ev0, probe,
                   calls, earlier, agents>>

Next ==
    \/ \E sid \in Sessions, t \in Transcripts, f \in [include_summary : BOOLEAN,
            include_key_points : BOOLEAN, include_action_items : BOOLEAN] :
          RunRouter(sid, t, f)
    \/ MakePlan
    \/ ContinueRouter
    \/ SkipRefiner
    \/ RunStage
    \/ Return
    \/ StoreFlip

Spec == Init /\ [][Next]_vars

(***************************************************************************)
(* run called again by its caller, with the same arguments                 *)
(***************************************************************************)

\* calls of run after the first
MaxRetries == 1

\* AgentMemory.__init__: a memory that has touched no session
NewMemory ==
    [events_by_session |-> [s \in Sessions |-> <<>>],
     kv_by_session |-> [s \in Sessions |-> EmptyDict],
     loaded_sessions |-> {}]

\* the store as it is, behind a memory constructed anew
Restarted(w) ==
    [w EXCEPT !.memory = NewMemory,
              !.loads = [s \in Sessions |-> [load_kv |-> 0, load_events |-> 0]]]

\* the caller calls run again with the arguments of the call that returned,
\* on the same orchestrator or (fresh) on one constructed anew over the same
\* store, which by then works or fails (up)
Retry(fresh, up) ==
    /\ pc = "done"
    /\ Len(earlier) < MaxRetries
    /\ earlier' = Append(earlier, result)
    /\ storeUp' = up
    /\ Invoke(IF fresh THEN Restarted(World) ELSE World, session_id, transcript, flags, up)

NextRetry ==
    \/ \E sid \in Sessions, t \in Transcripts, f \in [include_summary : BOOLEAN,
            include_key_points : BOOLEAN, include_action_items : BOOLEAN] :
          RunRouter(sid, t, f)
    \/ MakePlan
    \/ ContinueRouter
    \/ SkipRefiner
    \/ RunStage
    \/ Return
    \/ \E fresh \in BOOLEAN, up \in {StoreOps, {}} : Retry(fresh, up)

SpecRetry == Init /\ [][NextRetry]_vars

(***************************************************************************)
(* run on an orchestrator whose _agents dict the caller has changed: one   *)
(* of the six names has been removed                                       *)
(***************************************************************************)

InitReg ==
    /\ memory = NewMemory
    /\ store \in {EmptyStore, SeededStore}
    /\ clock = 1
    /\ loads = [s \in Sessions |-> [load_kv |-> 0, load_events |-> 0]]
    /\ storeUp \in {StoreOps, {}}
    /\ flips = 0
    /\ pc = "idle"
    /\ session_id = ""
    /\ transcript = ""
    /\ flags = [include_summary |-> FALSE, include_key_points |-> FALSE,
                include_action_items |-> FALSE]
    /\ router_result = EmptyDict
    /\ plan = <<>>
    /\ step = 0
    /\ outputs = EmptyDict
    /\ meta = EmptyDict
    /\ result = EmptyDict
    /\ executed = <<>>
    /\ evals = <<>>
    /\ ev0 = 0
    /\ probe = [fn |-> "none"]
    /\ calls = <<>>
    /\ earlier = <<>>
    /\ agents \in {Registry} \cup {Registry \ {name} : name \in Registry}

\* run, line 32: self._agents["router"] raises KeyError, run propagates it
\* before anything is written
AbortEntry(sid, t, f) ==
    /\ pc = "idle"
    /\ "router" \notin agents
    /\ pc' = "failed"
    /\ session_id' = sid
    /\ transcript' = t
    /\ flags' = f
    /\ UNCHANGED <<memory, store, clock, loads, storeUp, flips, router_result, plan, step,
                   outputs, meta, result, executed, evals, ev0, probe, calls, earlier, agents>>

\* run, line 75: self._agents[step] raises KeyError, run propagates it
Abort ==
    /\ pc = "loop"
    /\ step <= Len(plan)
    /\ plan[step] # "router"
    /\ ~ (plan[step] = "refiner" /\ LastIssues(outputs) = <<>>)
    /\ plan[step] \notin agents
    /\ pc' = "failed"
    /\ UNCHANGED <<memory, store, clock, loads, storeUp, flips, session_id, transcript,
                   flags, router_result, plan, step, outputs, meta, result, executed, evals,
                   ev0, probe, calls, earlier, agents>>

NextReg ==
    \/ \E sid \in Sessions, t \in Transcripts, f \in [include_summary : BOOLEAN,
            include_key_points : BOOLEAN, include_action_items : BOOLEAN] :
          \/ RunRouter(sid, t, f)
          \/ AbortEntry(sid, t, f)
    \/ MakePlan
    \/ ContinueRouter
    \/ SkipRefiner
    \/ RunStage
    \/ Return
    \/ Abort

SpecReg == InitReg /\ [][NextReg]_vars

(***************************************************************************)
(* AgentMemory called on its own (agents/memory.py): any sequence of put,  *)
(* get, add_event, events and snapshot, and of stages run on the memory    *)
(***************************************************************************)

\* operations called on the memory in one behaviour
MaxCalls == 3

\* the keys, and the (key, value) pairs put: two values for the key the
\* seeded store holds, one for a key it does not hold
MemKeys == {"note", "k"}
MemPuts == {<<"note", "a">>, <<"note", "b">>, <<"k", "a">>}
MemDefault == "dflt"

\* the payload of the next add_event call: the number of the call, so that
\* no two calls pass the same payload
MemPayload == [n |-> Len(calls) + 1]

\* the stages run on the memory, and the transcript and the working context
\* they are given
MemStages == {"router", "refiner"}
MemTranscript == "Ask Bob."
MemContext ==
    [summary |-> "", evaluator |-> [issues |-> <<[type |-> "empty_summary"]>>]]

\* the store working, failing, or failing for one of its two tables
StoreModes == {StoreOps, {}, {"load_kv", "put_kv"}, {"load_events", "add_event"}}

\* the locals of run, which no call on the memory changes
runVars ==
    <<pc, session_id, transcript, flags, router_result, plan, step, outputs, meta,
      result, executed, evals, ev0, probe, earlier, agents>>

InitMem ==
    /\ memory = [events_by_session |-> [s \in Sessions |-> <<>>],
                 kv_by_session |-> [s \in Sessions |-> EmptyDict],
                 loaded_sessions |-> {}]
    /\ store = SeededStore
    /\ clock = 1
    /\ loads = [s \in Sessions |-> [load_kv |-> 0, load_events |-> 0]]
    /\ storeUp \in StoreModes
    /\ flips = 0
    /\ pc = "idle"
    /\ session_id = ""
    /\ transcript = ""
    /\ flags = [include_summary |-> FALSE, include_key_points |-> FALSE,
                include_action_items |-> FALSE]
    /\ router_result = EmptyDict
    /\ plan = <<>>
    /\ step = 0
    /\ outputs = EmptyDict
    /\ meta = EmptyDict
    /\ result = EmptyDict
    /\ executed = <<>>
    /\ evals = <<>>
    /\ ev0 = 0
    /\ probe = [fn |-> "none"]
    /\ calls = <<>>
    /\ earlier = <<>>
    /\ agents = Registry

\* the record of one call: its arguments, what it returned, and what the
\* caller could see before it: the store operations that worked, whether the
\* session had been touched, and the rows the store held for the session
Call(op, sid, args, ret) ==
    [op |-> op, sid |-> sid, args |-> args, ret |-> ret, up |-> storeUp,
     first |-> sid \notin memory.loaded_sessions,
     held |-> [kv |-> StoreLoadKv(store, sid),
               events |-> StoreLoadEvents(store.agent_events, sid)]]

\* memory.put(sid, key, value)
DoPut(sid, key, value) ==
    /\ Len(calls) < MaxCalls
    /\ SetWorld(MemPut(World, sid, key, value, storeUp))
    /\ calls' = Append(calls, Call("put", sid, [key |-> key, value |-> value], "None"))
    /\ UNCHANGED <<storeUp, flips, runVars>>

\* memory.get(sid, key, MemDefault)
DoGet(sid, key) ==
    /\ Len(calls) < MaxCalls
    /\ SetWorld(EnsureLoaded(World, sid, storeUp))
    /\ calls' = Append(calls, Call("get", sid, [key |-> key, default |-> MemDefault],
                                   MemGet(World, sid, key, MemDefault, storeUp)))
    /\ UNCHANGED <<storeUp, flips, runVars>>

\* memory.add_event(sid, "note_added", payload)
DoAddEvent(sid, payload) ==
    /\ Len(calls) < MaxCalls
    /\ SetWorld(MemAddEvent(World, sid, "note_added", payload, storeUp))
    /\ calls' = Append(calls, Call("add_event", sid,
                                   [type |-> "note_added", payload |-> payload], "None"))
    /\ UNCHANGED <<storeUp, flips, runVars>>

\* memory.events(sid)
DoEvents(sid) ==
    /\ Len(calls) < MaxCalls
    /\ SetWorld(EnsureLoaded(World, sid, storeUp))
    /\ calls' = Append(calls, Call("events", sid, <<>>, MemEvents(World, sid, storeUp)))
    /\ UNCHANGED <<storeUp, flips, runVars>>

\* memory.snapshot(sid)
DoSnapshot(sid) ==
    /\ Len(calls) < MaxCalls
    /\ SetWorld(EnsureLoaded(World, sid, storeUp))
    /\ calls' = Append(calls, Call("snapshot", sid, <<>>, MemSnapshot(World, sid, storeUp)))
    /\ UNCHANGED <<storeUp, flips, runVars>>

\* self._agents[name].run(session_id=sid, transcript=MemTranscript,
\* memory=memory, context=MemContext)
DoStage(sid, name) ==
    /\ Len(calls) < MaxCalls
    /\ \E r \in {RunAgent(name, World, sid, MemTranscript, MemContext, storeUp)} :
           /\ SetWorld(r.w)
           /\ calls' = Append(calls, Call("stage", sid, [name |-> name], r.output))
    /\ UNCHANGED <<storeUp, flips, runVars>>

NextMem ==
    \/ \E sid \in Sessions, kv \in MemPuts : DoPut(sid, kv[1], kv[2])
    \/ \E sid \in Sessions, key \in MemKeys : DoGet(sid, key)
    \/ \E sid \in Sessions : DoAddEvent(sid, MemPayload)
    \/ \E sid \in Sessions : DoEvents(sid)
    \/ \E sid \in Sessions : DoSnapshot(sid)
    \/ \E sid \in Sessions, name \in MemStages : DoStage(sid, name)

SpecMem == InitMem /\ [][NextMem]_vars

(***************************************************************************)
(* KeyPoints and ActionItems called on their own, on any transcript        *)
(***************************************************************************)

\* sentences of a composed transcript
MaxSentences == 3

\* the sentences transcripts are composed of: with a key-point keyword, with
\* an action verb, with both, with neither; starting with a lowercase letter,
\* an uppercase letter, a digit; of 10 characters, and longer
SentencePool ==
    {"remember the key.", "We must finish it!", "note this.", "3 main items will follow.",
     "Nothing here?"}

\* the separators between two sentences
Separators == {" ", "\n"}

\* the transcripts of n sentences, all separated by sep
RECURSIVE Composed(_, _)
Composed(n, sep) ==
    IF n = 0 THEN {""}
    ELSE IF n = 1 THEN SentencePool
    ELSE {t \o sep \o s : t \in Composed(n - 1, sep), s \in SentencePool}

T_SevenActions ==
    "do task one. do task two. do task three. do task four. do task five. do task six. do task seven."

ProbeTranscripts ==
    Transcripts \cup {T_SevenActions}
    \cup UNION {Composed(n, sep) : n \in 0..MaxSentences, sep \in Separators}

InitText ==
    /\ memory = NewMemory
    /\ store = EmptyStore
    /\ clock = 1
    /\ loads = [s \in Sessions |-> [load_kv |-> 0, load_events |-> 0]]
    /\ storeUp = StoreOps
    /\ flips = 0
    /\ pc = "idle"
    /\ session_id = ""
    /\ transcript = ""
    /\ flags = [include_summary |-> FALSE, include_key_points |-> FALSE,
                include_action_items |-> FALSE]
    /\ router_result = EmptyDict
    /\ plan = <<>>
    /\ step = 0
    /\ outputs = EmptyDict
    /\ meta = EmptyDict
    /\ result = EmptyDict
    /\ executed = <<>>
    /\ evals = <<>>
    /\ ev0 = 0
    /\ probe \in {[fn |-> "items", transcript |-> t] : t \in ProbeTranscripts}
    /\ calls = <<>>
    /\ earlier = <<>>
    /\ agents = Registry

\* KeyPointsAgent.run, then ActionItemsAgent.run, on the probed transcript,
\* for session s1
ItemsProbe ==
    /\ probe.fn = "items"
    /\ "key_points" \notin DOMAIN probe
    /\ \E kp \in {KeyPointsAgent(World, "s1", probe.transcript, storeUp)} :
       \E ai \in {ActionItemsAgent(kp.w, "s1", probe.transcript, storeUp)} :
           /\ SetWorld(ai.w)
           /\ probe' = [fn |-> probe.fn, transcript |-> probe.transcript,
                        key_points |-> kp.output, action_items |-> ai.output]
    /\ UNCHANGED <<storeUp, flips, pc, session_id, transcript, flags, router_result, plan,
                   step, outputs, meta, result, executed, evals, ev0,
                   calls, earlier, agents>>

NextText == ItemsProbe

SpecText == InitText /\ [][NextText]_vars

(***************************************************************************)
(* The Evaluator called on its own, on any working context                 *)
(***************************************************************************)

\* longest key_points or action_items list of a probed context
MaxProbeLen == 9

ProbeList(n) == [j \in 1..n |-> "Key item one."]

\* a working context: the summary (or none), the two lists, and the output
\* of an earlier Evaluator execution (or none)
ProbeContext(summary, nkp, nai, prior) ==
    LET c0 == IF summary = "absent" THEN EmptyDict ELSE DictPut(EmptyDict, "summary", summary)
        c1 == IF nkp = 0 THEN c0 ELSE DictPut(c0, "key_points", ProbeList(nkp))
        c2 == IF nai = 0 THEN c1 ELSE DictPut(c1, "action_items", ProbeList(nai))
    IN  IF prior = "absent" THEN c2
        ELSE DictPut(c2, "evaluator",
                 [issues |-> IF prior = "clean" THEN <<>>
                             ELSE <<[type |-> "too_many_key_points", count |-> MaxProbeLen]>>])

ProbeContexts ==
    {ProbeContext(summary, nkp, nai, prior) :
        summary \in {"absent", "", " \n", "ok"}, nkp \in 0..MaxProbeLen, nai \in 0..MaxProbeLen,
        prior \in {"absent", "clean", "dirty"}}

InitEval ==
    /\ memory = [events_by_session |-> [s \in Sessions |-> <<>>],
                 kv_by_session |-> [s \in Sessions |-> EmptyDict],
                 loaded_sessions |-> {}]
    /\ store \in {EmptyStore, SeededStore}
    /\ clock = 1
    /\ loads = [s \in Sessions |-> [load_kv |-> 0, load_events |-> 0]]
    /\ storeUp \in {StoreOps, {}}
    /\ flips = 0
    /\ pc = "idle"
    /\ session_id = ""
    /\ transcript = ""
    /\ flags = [include_summary |-> FALSE, include_key_points |-> FALSE,
                include_action_items |-> FALSE]
    /\ router_result = EmptyDict
    /\ plan = <<>>
    /\ step = 0
    /\ outputs = EmptyDict
    /\ meta = EmptyDict
    /\ result = EmptyDict
    /\ executed = <<>>
    /\ evals = <<>>
    /\ ev0 = 0
    /\ probe \in {[fn |-> "evaluator", context |-> c] : c \in ProbeContexts}
    /\ calls = <<>>
    /\ earlier = <<>>
    /\ agents = Registry

\* EvaluatorAgent.run on the probed context, for session s1
EvalProbe ==
    /\ probe.fn = "evaluator"
    /\ "out" \notin DOMAIN probe
    /\ \E r \in {EvaluatorAgent(World, "s1", probe.context, storeUp)} :
           /\ SetWorld(r.w)
           /\ probe' = [fn |-> probe.fn, context |-> probe.context, out |-> r.output,
                        meta |-> r.meta]
    /\ UNCHANGED <<storeUp, flips, pc, session_id, transcript, flags, router_result, plan,
                   step, outputs, meta, result, executed, evals, ev0,
                   calls, earlier, agents>>

NextEval == EvalProbe

SpecEval == InitEval /\ [][NextEval]_vars

(***************************************************************************)
(* Summary and classify_transcript called on their own, on any transcript  *)
(***************************************************************************)

\* the state in which a stage or tool is about to be called on its own, on
\* a new memory over an empty store, with one of the probes as its input
InitProbe(probes) ==
    /\ memory = NewMemory
    /\ store = EmptyStore
    /\ clock = 1
    /\ loads = [s \in Sessions |-> [load_kv |-> 0, load_events |-> 0]]
    /\ storeUp = StoreOps
    /\ flips = 0
    /\ pc = "idle"
    /\ session_id = ""
    /\ transcript = ""
    /\ flags = [include_summary |-> FALSE, include_key_points |-> FALSE,
                include_action_items |-> FALSE]
    /\ router_result = EmptyDict
    /\ plan = <<>>
    /\ step = 0
    /\ outputs = EmptyDict
    /\ meta = EmptyDict
    /\ result = EmptyDict
    /\ executed = <<>>
    /\ evals = <<>>
    /\ ev0 = 0
    /\ probe \in probes
    /\ calls = <<>>
    /\ earlier = <<>>
    /\ agents = Registry

\* what a probe leaves alone
probeFrame ==
    <<storeUp, flips, pc, session_id, transcript, flags, router_result, plan, step, outputs,
      meta, result, executed, evals, ev0, calls, earlier, agents>>

\* transcripts whose sentences are separated by more than one whitespace
\* character, or that end in whitespace after the last sentence
SpacedTranscripts ==
    {"One is here.  Two is there!", " A b. \n\n C d? ", "One.  Two!\n\nThree?  Four.",
     "a.b c", "Wait...  what?! Yes. No.", ". a. b"}

\* keywords of the signals table as they may stand in a transcript, per label
KeywordText ==
    [meeting |-> <<"The Agenda is set. ", "Read the minutes! ", "One deadline. ">>,
     lecture |-> <<"Open the chapter. ", "The PROFESSOR said. ", "See the slides? ">>,
     interview |-> <<"Tell me about it. ", "Why did you go? ", "Can you explain? ">>]

\* most keywords of one label in a composed transcript
MaxKeywords == 2

\* the text holding the first n keyword sentences of the label
RECURSIVE KeywordRun(_, _)
KeywordRun(label, n) ==
    IF n = 0 THEN "" ELSE KeywordRun(label, n - 1) \o KeywordText[label][n]

ClassifyTranscripts ==
    {KeywordRun("interview", i) \o KeywordRun("lecture", l) \o KeywordRun("meeting", m) :
        i \in 0..MaxKeywords, l \in 0..MaxKeywords, m \in 0..MaxKeywords}

ToolProbes ==
    {[fn |-> "summary", transcript |-> t] : t \in ProbeTranscripts \cup SpacedTranscripts}
    \cup {[fn |-> "classify", transcript |-> t] : t \in Transcripts \cup ClassifyTranscripts}

InitTools == InitProbe(ToolProbes)

\* SummaryAgent.run on the probed transcript, for session s1
SummaryProbe ==
    /\ probe.fn = "summary"
    /\ "out" \notin DOMAIN probe
    /\ \E r \in {SummaryAgent(World, "s1", probe.transcript, storeUp)} :
           /\ SetWorld(r.w)
           /\ probe' = [fn |-> probe.fn, transcript |-> probe.transcript, out |-> r.output,
                        meta |-> r.meta]
    /\ UNCHANGED probeFrame

\* Tools.classify_transcript on the probed transcript
ClassifyProbe ==
    /\ probe.fn = "classify"
    /\ "out" \notin DOMAIN probe
    /\ probe' = [fn |-> probe.fn, transcript |-> probe.transcript,
                 out |-> classify_transcript(probe.transcript).output]
    /\ UNCHANGED <<memory, store, clock, loads>>
    /\ UNCHANGED probeFrame

NextTools == SummaryProbe \/ ClassifyProbe

SpecTools == InitTools /\ [][NextTools]_vars

(***************************************************************************)
(* The Refiner called on its own, on any working context, issue list and   *)
(* stored entities                                                         *)
(***************************************************************************)

\* longest issue list of a probed context
MaxIssues == 2

\* issue types: the three the Evaluator reports and one it does not
ProbeIssues ==
    {[type |-> "empty_summary"], [type |-> "too_many_key_points", count |-> 9],
     [type |-> "too_many_action_items", count |-> 8], [type |-> "style"]}

RECURSIVE IssueLists(_)
IssueLists(n) ==
    IF n = 0 THEN {<<>>}
    ELSE IssueLists(n - 1) \cup {Append(l, i) : l \in {x \in IssueLists(n - 1) : Len(x) = n - 1},
                                              i \in ProbeIssues}

\* n distinct items
NumberedList(n) == [j \in 1..n |-> "Point " \o SubSeq("123456789", j, j) \o " is here."]

\* the output of extract_entities for a transcript that names the first n of
\* six people, the earlier ones more often
EntityNames == <<"Alice", "Bob", "Carol", "Dave", "Erin", "Frank">>
NamedEntities(n) == [j \in 1..n |-> [text |-> EntityNames[j], count |-> 7 - j]]

\* a working context with the summary (or none), the two lists and the
\* Evaluator's issues
RefineContext(summary, nkp, nai, issues) ==
    DictUpdate(
        DictUpdate(
            DictUpdate([evaluator |-> [issues |-> issues]],
                       IF summary = "absent" THEN EmptyDict ELSE [summary |-> summary]),
            IF nkp = 0 THEN EmptyDict ELSE [key_points |-> NumberedList(nkp)]),
        IF nai = 0 THEN EmptyDict ELSE [action_items |-> NumberedList(nai)])

RefineProbes ==
    {[fn |-> "refiner", context |-> RefineContext(summary, nkp, nai, issues),
      transcript |-> t, stored |-> stored, entities |-> NamedEntities(n)] :
        summary \in {"absent", "", " Talk now. ", "Ask Bob.", "Ask Dave.", "Ask Frank."},
        nkp \in {0, 9}, nai \in {0, 8}, issues \in IssueLists(MaxIssues),
        t \in {"", "Tell Erin. Go now. Stop.", " plain text "},
        stored \in {TRUE}, n \in {0, 2, 3, 5, 6}}
    \cup
    {[fn |-> "refiner", context |-> RefineContext(summary, 0, 0, issues),
      transcript |-> " plain text ", stored |-> FALSE, entities |-> <<>>] :
        summary \in {"absent", "", "Ask Bob."}, issues \in IssueLists(1)}

\* the memory and store in which the Router's put of the entities (or no
\* put) has happened for session s1
EntitiesStored(p) ==
    IF p.stored
    THEN MemPut([memory |-> NewMemory, store |-> EmptyStore, clock |-> 1,
                 loads |-> [s \in Sessions |-> [load_kv |-> 0, load_events |-> 0]]],
                "s1", "entities", [entities |-> p.entities], StoreOps)
    ELSE [memory |-> NewMemory, store |-> EmptyStore, clock |-> 1,
          loads |-> [s \in Sessions |-> [load_kv |-> 0, load_events |-> 0]]]

InitRefine ==
    /\ probe \in RefineProbes
    /\ \E w \in {EntitiesStored(probe)} :
          /\ memory = w.memory
          /\ store = w.store
          /\ clock = w.clock
          /\ loads = w.loads
    /\ storeUp = StoreOps
    /\ flips = 0
    /\ pc = "idle"
    /\ session_id = ""
    /\ transcript = ""
    /\ flags = [include_summary |-> FALSE, include_key_points |-> FALSE,
                include_action_items |-> FALSE]
    /\ router_result = EmptyDict
    /\ plan = <<>>
    /\ step = 0
    /\ outputs = EmptyDict
    /\ meta = EmptyDict
    /\ result = EmptyDict
    /\ executed = <<>>
    /\ evals = <<>>
    /\ ev0 = 0
    /\ calls = <<>>
    /\ earlier = <<>>
    /\ agents = Registry

\* RefinerAgent.run on the probed context and transcript, for session s1
RefineProbe ==
    /\ probe.fn = "refiner"
    /\ "out" \notin DOMAIN probe
    /\ \E r \in {RefinerAgent(World, "s1", probe.transcript, probe.context, storeUp)} :
           /\ SetWorld(r.w)
           /\ probe' = [fn |-> probe.fn, context |-> probe.context,
                        transcript |-> probe.transcript, stored |-> probe.stored,
                        entities |-> probe.entities, out |-> r.output, meta |-> r.meta,
                        before |-> Len(memory.events_by_session["s1"])]
    /\ UNCHANGED probeFrame

NextRefine == RefineProbe

SpecRefine == InitRefine /\ [][NextRefine]_vars

(***************************************************************************)
(* Several calls of run as tasks of one event loop, on one orchestrator    *)
(* and one session                                                         *)
(***************************************************************************)

\* tasks the caller starts together
MaxTasks == 2

\* the arguments a task's call of run is given
LoopArgs ==
    [transcript : {T_Generic, T_Blank, T_Interview},
     flags : {[include_summary |-> FALSE, include_key_points |-> FALSE,
               include_action_items |-> FALSE],
              [include_summary |-> TRUE, include_key_points |-> TRUE,
               include_action_items |-> TRUE]}]

\* the local variables of a call of run and the place it stands at
Frame ==
    [pc |-> pc, session_id |-> session_id, transcript |-> transcript, flags |-> flags,
     router_result |-> router_result, plan |-> plan, step |-> step, outputs |-> outputs,
     meta |-> meta, result |-> result, executed |-> executed, evals |-> evals,
     ev0 |-> ev0]

\* a coroutine that has not started
NewFrame ==
    [pc |-> "new", session_id |-> "", transcript |-> "",
     flags |-> [include_summary |-> FALSE, include_key_points |-> FALSE,
                include_action_items |-> FALSE],
     router_result |-> EmptyDict, plan |-> <<>>, step |-> 0, outputs |-> EmptyDict,
     meta |-> EmptyDict, result |-> EmptyDict, executed |-> <<>>, evals |-> <<>>,
     ev0 |-> 0]

\* the ready queues of a loop on which up to MaxTasks calls were started
RECURSIVE ReadyQueues(_)
ReadyQueues(n) ==
    IF n = 0 THEN {<<>>}
    ELSE ReadyQueues(n - 1)
         \cup {Append(q, [args |-> a, frame |-> NewFrame]) :
                  q \in {p \in ReadyQueues(n - 1) : Len(p) = n - 1}, a \in LoopArgs}

\* the stages whose run suspends mid-body, waiting for something outside the
\* coroutine
StageAwaits_EveryStage ==
    {"router", "summary", "key_points", "action_items", "evaluator", "refiner"}

\* the stages whose run suspends, waiting for something outside the coroutine
\* (a future, a sleep, I/O): the bodies of all six are synchronous code, and
\* so are the memory's and the store's methods they call
StageAwaits == {}

\* the stage whose run the coroutine awaited last ("" before the first, after
\* the loop's continue over "router" and after a skipped Refiner)
JustAwaited ==
    IF pc = "routed" THEN "router"
    ELSE IF pc = "loop" /\ step > 1 /\ plan[step - 1] # "router"
            /\ ~ (plan[step - 1] = "refiner" /\ "skipped" \in DOMAIN outputs["refiner"])
         THEN plan[step - 1]
         ELSE ""

\* the stage the running task awaited has suspended, and the task has not been
\* resumed from that place yet
Suspended ==
    /\ JustAwaited \in StageAwaits
    /\ ~ (Head(probe.queue).frame.pc = pc /\ Head(probe.queue).frame.step = step)

InitLoop ==
    /\ memory = NewMemory
    /\ store \in {EmptyStore, SeededStore}
    /\ clock = 1
    /\ loads = [s \in Sessions |-> [load_kv |-> 0, load_events |-> 0]]
    /\ storeUp \in {StoreOps, {}}
    /\ flips = 0
    /\ pc = "idle"
    /\ session_id = ""
    /\ transcript = ""
    /\ flags = [include_summary |-> FALSE, include_key_points |-> FALSE,
                include_action_items |-> FALSE]
    /\ router_result = EmptyDict
    /\ plan = <<>>
    /\ step = 0
    /\ outputs = EmptyDict
    /\ meta = EmptyDict
    /\ result = EmptyDict
    /\ executed = <<>>
    /\ evals = <<>>
    /\ ev0 = 0
    /\ probe \in {[fn |-> "loop", queue |-> q, finished |-> <<>>] :
                     q \in ReadyQueues(MaxTasks) \ {<<>>}}
    /\ calls = <<>>
    /\ earlier = <<>>
    /\ agents = Registry

\* the loop gives control to the task at the head of its ready queue: a call
\* of run that has not started enters run and awaits the Router; one that was
\* suspended goes on where it stood
Dispatch ==
    /\ pc = "idle"
    /\ probe.queue # <<>>
    /\ IF Head(probe.queue).frame.pc = "new"
       THEN /\ Invoke(World, "s1", Head(probe.queue).args.transcript,
                      Head(probe.queue).args.flags, storeUp)
            /\ UNCHANGED <<storeUp, earlier>>
       ELSE /\ pc' = Head(probe.queue).frame.pc
            /\ session_id' = Head(probe.queue).frame.session_id
            /\ transcript' = Head(probe.queue).frame.transcript
            /\ flags' = Head(probe.queue).frame.flags
            /\ router_result' = Head(probe.queue).frame.router_result
            /\ plan' = Head(probe.queue).frame.plan
            /\ step' = Head(probe.queue).frame.step
            /\ outputs' = Head(probe.queue).frame.outputs
            /\ meta' = Head(probe.queue).frame.meta
            /\ result' = Head(probe.queue).frame.result
            /\ executed' = Head(probe.queue).frame.executed
            /\ evals' = Head(probe.queue).frame.evals
            /\ ev0' = Head(probe.queue).frame.ev0
            /\ UNCHANGED <<memory, store, clock, loads, storeUp, flips, probe, calls,
                           earlier, agents>>

\* the running task gives control back to the loop: its call of run has
\* returned, or the stage it awaits has suspended and the task goes to the
\* end of the ready queue
Yield ==
    /\ probe.queue # <<>>
    /\ pc = "done" \/ Suspended
    /\ probe' =
          IF pc = "done"
          THEN [probe EXCEPT !.queue = Tail(@),
                             !.finished = Append(@, [args |-> Head(probe.queue).args,
                                                     result |-> result,
                                                     plan |-> plan,
                                                     executed |-> executed,
                                                     from |-> ev0])]
          ELSE [probe EXCEPT !.queue = Append(Tail(@), [args |-> Head(probe.queue).args,
                                                        frame |-> Frame])]
    /\ pc' = "idle"
    /\ UNCHANGED <<memory, store, clock, loads, storeUp, flips, session_id, transcript,
                   flags, router_result, plan, step, outputs, meta, result, executed,
                   evals, ev0, calls, earlier, agents>>

\* a running task goes on while it is not suspended
Running == ~ Suspended

NextLoop ==
    \/ Dispatch
    \/ Yield
    \/ Running /\ MakePlan
    \/ Running /\ ContinueRouter
    \/ Running /\ SkipRefiner
    \/ Running /\ RunStage
    \/ Running /\ Return

SpecLoop == InitLoop /\ [][NextLoop]_vars

(***************************************************************************)
(* Calls of run one after another on one session, with other transcripts   *)
(* and flags, on the same orchestrator or on one constructed anew          *)
(***************************************************************************)

\* calls of run on the session
MaxRuns == 3

\* the arguments of the calls
RunArgs ==
    {[transcript |-> T_Interview,
      flags |-> [include_summary |-> TRUE, include_key_points |-> TRUE,
                 include_action_items |-> TRUE]],
     [transcript |-> T_Generic,
      flags |-> [include_summary |-> FALSE, include_key_points |-> FALSE,
                 include_action_items |-> FALSE]],
     [transcript |-> T_Blank,
      flags |-> [include_summary |-> TRUE, include_key_points |-> FALSE,
                 include_action_items |-> TRUE]]}

\* the caller calls run on the session again, with the arguments a, on the
\* same orchestrator or (fresh) on one constructed anew over the same store,
\* which by then works or fails (up); the history keeps what the call before
\* returned, how the store did during it and whether the orchestrator was
\* replaced after it
RunAgain(a, fresh, up) ==
    /\ pc = "done"
    /\ Len(earlier) < MaxRuns - 1
    /\ earlier' = Append(earlier, [result |-> result, up |-> storeUp, fresh |-> fresh])
    /\ storeUp' = up
    /\ Invoke(IF fresh THEN Restarted(World) ELSE World, "s1", a.transcript, a.flags, up)

NextRuns ==
    \/ \E a \in RunArgs : RunRouter("s1", a.transcript, a.flags)
    \/ MakePlan
    \/ ContinueRouter
    \/ SkipRefiner
    \/ RunStage
    \/ Return
    \/ \E a \in RunArgs, fresh \in BOOLEAN, up \in {StoreOps, {}} : RunAgain(a, fresh, up)

SpecRuns == Init /\ [][NextRuns]_vars

(***************************************************************************)
(* Properties of a run                                                     *)
(***************************************************************************)

Specialists == <<"summary", "key_points", "action_items">>

InSeq(xs, x) == \E j \in 1..Len(xs) : xs[j] = x

Count(xs, x) == Cardinality({j \in 1..Len(xs) : xs[j] = x})

\* position of a specialist in the fixed order
Rank(name) == CHOOSE j \in 1..Len(Specialists) : Specialists[j] = name

\* the plan's entries between "router" and the suffix
PlanMiddle(p) == SubSeq(p, 2, Len(p) - 3)

\* summary, key_points and action_items of a working context
ArtifactOf(outs) ==
    [k \in (DOMAIN outs) \cap {"summary", "key_points", "action_items"} |-> outs[k]]

\* the audit events the current run appended so far, and their types
RunEvents ==
    SubSeq(memory.events_by_session[session_id], ev0 + 1,
           Len(memory.events_by_session[session_id]))

RunEventTypes == [j \in 1..Len(RunEvents) |-> RunEvents[j].type]

IssueTypes(issues) == [j \in 1..Len(issues) |-> issues[j].type]

RefinerRan == InSeq(executed, "refiner")

\* C1 (state part): once computed, the plan is "router", then specialists in
\* the order summary, key_points, action_items without repetition, then
\* evaluator, refiner, evaluator; and when it is computed only the Router ran
C1_PlanShape ==
    /\ pc \in {"loop", "done"} =>
        /\ Len(plan) >= 4
        /\ plan[1] = "router"
        /\ SubSeq(plan, Len(plan) - 2, Len(plan)) = <<"evaluator", "refiner", "evaluator">>
        /\ \A j \in 1..Len(PlanMiddle(plan)) : InSeq(Specialists, PlanMiddle(plan)[j])
        /\ \A j, k \in 1..Len(PlanMiddle(plan)) :
              j < k => Rank(PlanMiddle(plan)[j]) < Rank(PlanMiddle(plan)[k])
    /\ pc \in {"idle", "routed"} => \A j \in 1..Len(executed) : executed[j] = "router"

\* C1 (step part): while the plan is executed it does not change
C1_PlanFrozen == pc = "loop" => plan' = plan

\* C1: in every run the plan is router, an ordered repetition-free selection
\* of the specialists, and the suffix evaluator, refiner, evaluator; it is
\* computed before any specialist executes and never changes afterwards
C1_Plan == [] C1_PlanShape /\ [][C1_PlanFrozen]_vars

\* a run whose plan holds all three specialists has finished
C1_Witness ==
    /\ pc = "done"
    /\ plan = <<"router", "summary", "key_points", "action_items", "evaluator", "refiner",
                "evaluator">>

\* C2: a specialist is in the plan iff its flag is true or the Router's hint
\* for it is true; the hints are prefer_summary = true, prefer_key_points iff
\* the label is lecture or meeting, prefer_action_items iff the label is
\* meeting or interview or at least two action verbs were detected
C2_PlanMembership ==
    pc \in {"loop", "done"} =>
        LET label == outputs["router"].classification.label
            verbs == outputs["router"].action_verbs.verbs
            hints == outputs["router"].plan_hints
        IN  /\ hints.prefer_summary = TRUE
            /\ hints.prefer_key_points = (label \in {"lecture", "meeting"})
            /\ hints.prefer_action_items = (label \in {"meeting", "interview"} \/ Len(verbs) >= 2)
            /\ InSeq(plan, "summary") = (flags.include_summary \/ hints.prefer_summary)
            /\ InSeq(plan, "key_points") = (flags.include_key_points \/ hints.prefer_key_points)
            /\ InSeq(plan, "action_items") =
                  (flags.include_action_items \/ hints.prefer_action_items)

\* a generic transcript with exactly two action verbs put action_items in the
\* plan although the caller did not ask for it, and left key_points out
C2_Witness ==
    /\ pc = "done"
    /\ ~ flags.include_action_items
    /\ ~ flags.include_key_points
    /\ outputs["router"].classification.label = "generic"
    /\ Len(outputs["router"].action_verbs.verbs) = 2
    /\ InSeq(plan, "action_items")
    /\ ~ InSeq(plan, "key_points")

\* C3: at the end of a run, if the first Evaluator found no issue the Refiner
\* was not invoked (no refiner_applied event), {skipped, reason: no_issues} is
\* recorded for it and the trailing Evaluator ran; otherwise the Refiner was
\* invoked exactly once and the trailing Evaluator ran after it
C3_RefinerGate ==
    pc = "done" =>
        /\ Len(evals) = 2
        /\ Count(RunEventTypes, "evaluation_done") = 2
        /\ executed[Len(executed)] = "evaluator"
        /\ IF evals[1].issues = <<>>
           THEN /\ Count(executed, "refiner") = 0
                /\ Count(RunEventTypes, "refiner_applied") = 0
                /\ meta["refiner"] = [skipped |-> TRUE, reason |-> "no_issues"]
                /\ outputs["refiner"] = [skipped |-> TRUE]
           ELSE /\ Count(executed, "refiner") = 1
                /\ Count(RunEventTypes, "refiner_applied") = 1
                /\ executed[Len(executed) - 1] = "refiner"
                /\ RunEventTypes[Len(RunEventTypes) - 1] = "refiner_applied"

\* a run in which the Refiner was skipped has finished
C3_Witness ==
    /\ pc = "done"
    /\ evals[1].issues = <<>>
    /\ meta["refiner"] = [skipped |-> TRUE, reason |-> "no_issues"]
    /\ Len(evals) = 2

\* C4 (state part): once the Refiner has executed, the working context's
\* summary, key_points and action_items are the Refiner's; the trailing
\* Evaluator's issues are those of that artifact and the result returns it
C4_RefinedArtifact ==
    RefinerRan =>
        /\ DOMAIN ArtifactOf(outputs) = {"summary", "key_points", "action_items"}
        /\ outputs["summary"] = outputs["refiner"].summary
        /\ outputs["key_points"] = outputs["refiner"].key_points
        /\ outputs["action_items"] = outputs["refiner"].action_items
        /\ pc = "done" =>
            /\ evals[2].issues = EvaluatorIssues(ArtifactOf(outputs))
            /\ result.summary = outputs["refiner"].summary
            /\ result.key_points = outputs["refiner"].key_points
            /\ result.action_items = outputs["refiner"].action_items
            /\ result.evaluation = evals[2]

\* C4 (step part): only the steps of Summary, KeyPoints, ActionItems and
\* Refiner change the three fields
C4_Writers ==
    ArtifactOf(outputs') # ArtifactOf(outputs) =>
        /\ pc = "loop"
        /\ step <= Len(plan)
        /\ plan[step] \in {"summary", "key_points", "action_items", "refiner"}
        /\ executed' = Append(executed, plan[step])

\* C4: a Refiner that executes replaces the three artifact fields wholesale
\* before the trailing Evaluator runs, and no stage other than Summary,
\* KeyPoints, ActionItems and Refiner writes them
C4_RefinerOverwrite == [] C4_RefinedArtifact /\ [][C4_Writers]_vars

\* a run in which the Refiner executed on a context without key_points has
\* finished
C4_Witness ==
    /\ pc = "done"
    /\ RefinerRan
    /\ ~ InSeq(plan, "key_points")
    /\ result.key_points = <<>>

\* the transcript has nine sentences that each trigger a key point
NineKeyPointSentences ==
    Len(Candidates(Sentences(transcript), ImportantKeywords)) = 9

\* C5 as stated: in a run over a transcript with nine key-point-triggering
\* sentences the first Evaluator raises too_many_key_points with count 9,
\* the Refiner executes and truncates key_points to 5, and the trailing
\* Evaluator raises no too_many_key_points
C5_AsStated ==
    (pc = "done" /\ NineKeyPointSentences /\ InSeq(plan, "key_points")) =>
        /\ InSeq(evals[1].issues, [type |-> "too_many_key_points", count |-> 9])
        /\ RefinerRan
        /\ Len(result.key_points) = 5
        /\ ~ InSeq(IssueTypes(evals[2].issues), "too_many_key_points")

\* C5 amended: in a run over a transcript with nine key-point-triggering
\* sentences, KeyPoints (when it is in the plan) returns only the first 5 of
\* them, so the first Evaluator raises no too_many_key_points, the Refiner is
\* skipped, the result's key_points are those 5 (none when KeyPoints is not
\* in the plan), and the trailing Evaluator raises no too_many_key_points
C5_NineKeyPoints ==
    (pc = "done" /\ NineKeyPointSentences) =>
        /\ ~ InSeq(IssueTypes(evals[1].issues), "too_many_key_points")
        /\ ~ RefinerRan
        /\ meta["refiner"] = [skipped |-> TRUE, reason |-> "no_issues"]
        /\ result.key_points =
              IF InSeq(plan, "key_points")
              THEN SubSeq(Candidates(Sentences(transcript), ImportantKeywords), 1, 5)
              ELSE <<>>
        /\ InSeq(plan, "key_points") =>
              \E j \in 1..Len(RunEvents) :
                  /\ RunEvents[j].type = "key_points_generated"
                  /\ RunEvents[j].payload = [count |-> 5]
        /\ ~ InSeq(IssueTypes(evals[2].issues), "too_many_key_points")

\* a run over the nine-sentence transcript, with KeyPoints in its plan, has
\* finished
C5_Witness ==
    /\ pc = "done"
    /\ NineKeyPointSentences
    /\ InSeq(executed, "key_points")
    /\ Len(result.key_points) = 5

IssueOrder == <<"empty_summary", "too_many_key_points", "too_many_action_items">>

IssueRank(t) == CHOOSE j \in 1..Len(IssueOrder) : IssueOrder[j] = t

\* C7: the Evaluator's issue list holds empty_summary iff a summary is
\* present and empty after trimming, too_many_key_points iff there are more
\* than 7 key points, too_many_action_items iff there are more than 7 action
\* items, in that order and nothing else; it is the same whatever else the
\* context holds (an earlier Evaluator output) and whatever the memory holds
C7_EvaluatorIssues ==
    (probe.fn = "evaluator" /\ "out" \in DOMAIN probe) =>
        LET c == probe.context
            issues == probe.out.issues
            types == IssueTypes(issues)
        IN  /\ InSeq(types, "empty_summary") =
                  ("summary" \in DOMAIN c /\ Strip(c["summary"]) = "")
            /\ InSeq(types, "too_many_key_points") =
                  ("key_points" \in DOMAIN c /\ Len(c["key_points"]) > 7)
            /\ InSeq(types, "too_many_action_items") =
                  ("action_items" \in DOMAIN c /\ Len(c["action_items"]) > 7)
            /\ \A j \in 1..Len(types) : InSeq(IssueOrder, types[j])
            /\ \A j, k \in 1..Len(types) : j < k => IssueRank(types[j]) < IssueRank(types[k])
            /\ \A j \in 1..Len(issues) :
                  /\ issues[j].type = "too_many_key_points" =>
                        issues[j].count = Len(c["key_points"])
                  /\ issues[j].type = "too_many_action_items" =>
                        issues[j].count = Len(c["action_items"])
            /\ issues = EvaluatorIssues(ArtifactOf(c))

\* the Evaluator returned all three issues, on a context that held an earlier
\* Evaluator output without issues
C7_Witness ==
    /\ probe.fn = "evaluator"
    /\ "out" \in DOMAIN probe
    /\ Len(probe.out.issues) = 3
    /\ "evaluator" \in DOMAIN probe.context
    /\ probe.context["evaluator"].issues = <<>>

\* the artifact the specialists in the plan produce for the transcript
SpecialistArtifact ==
    [summary |-> SummaryText(transcript, Sentences(transcript)),
     key_points |-> IF InSeq(plan, "key_points") THEN KeyPoints(Sentences(transcript)) ELSE <<>>,
     action_items |->
        IF InSeq(plan, "action_items") THEN ActionItems(Sentences(transcript)) ELSE <<>>]

\* C8 (state part): when the first Evaluator found no issue, the result
\* returns what the specialists produced
C8_ResultIsSpecialists ==
    (pc = "done" /\ evals[1].issues = <<>>) =>
        /\ result.summary = SpecialistArtifact.summary
        /\ result.key_points = SpecialistArtifact.key_points
        /\ result.action_items = SpecialistArtifact.action_items

\* C8 (step part): at the Refiner position, with no issue reported, the step
\* leaves summary, key_points and action_items as they were
C8_SkipKeepsArtifact ==
    (pc = "loop" /\ step <= Len(plan) /\ plan[step] = "refiner" /\ evals[1].issues = <<>>) =>
        ArtifactOf(outputs') = ArtifactOf(outputs)

\* C8: in a run whose first Evaluator reports no issue, the working context's
\* summary, key_points and action_items are the same after the Refiner
\* position as before it, and the result returns the specialists' values
C8_NoIssuesNoChange == [] C8_ResultIsSpecialists /\ [][C8_SkipKeepsArtifact]_vars

\* a run without issues that produced key points and action items has
\* finished
C8_Witness ==
    /\ pc = "done"
    /\ evals[1].issues = <<>>
    /\ Len(result.key_points) >= 2
    /\ Len(result.action_items) >= 1
    /\ "skipped" \in DOMAIN outputs["refiner"]

\* C9: at the end of a run the result's evaluation is the output of the
\* trailing Evaluator execution, agent_meta has an entry for every stage of
\* the plan, and memory is the session's snapshot after the last stage: it
\* holds every event of the run, the last being the trailing evaluation_done
C9_Result ==
    pc = "done" =>
        /\ Len(evals) = 2
        /\ result.evaluation = evals[2]
        /\ \A j \in 1..Len(plan) : plan[j] \in DOMAIN result.agent_meta
        /\ Len(result.memory.events) = ev0 + 3 + Len(executed)
        /\ \A j \in 1..Len(result.memory.events) :
              /\ result.memory.events[j].type = memory.events_by_session[session_id][j].type
              /\ result.memory.events[j].payload =
                    memory.events_by_session[session_id][j].payload
        /\ result.memory.events[Len(result.memory.events)].type = "evaluation_done"
        /\ result.memory.events[Len(result.memory.events)].payload = [issues |-> evals[2].issues]
        /\ {"classification", "entities", "action_verbs", "plan_hints"}
              \subseteq DOMAIN result.memory.kv

\* a run that started on a session with earlier events, and whose trailing
\* Evaluator reported an issue, has finished
C9_Witness ==
    /\ pc = "done"
    /\ ev0 > 0
    /\ result.evaluation.issues # <<>>
    /\ Len(result.memory.events) > ev0

\* the audit event of each stage
StageEvent(name) ==
    CASE name = "summary" -> "summary_generated"
      [] name = "key_points" -> "key_points_generated"
      [] name = "action_items" -> "action_items_generated"
      [] name = "evaluator" -> "evaluation_done"
      [] name = "refiner" -> "refiner_applied"

\* the stages of a plan prefix, without a Refiner that was skipped
RECURSIVE StagesRun(_, _)
StagesRun(p, skipped) ==
    IF p = <<>> THEN <<>>
    ELSE (IF p[1] = "refiner" /\ skipped THEN <<>> ELSE <<p[1]>>) \o StagesRun(Tail(p), skipped)

\* C10: the stages of a run execute one after another in plan order, and the
\* events it appends are three tool_call events (classify_transcript,
\* extract_entities, extract_action_verbs), plan_created, the event of each
\* specialist in plan order, evaluation_done, refiner_applied unless the
\* Refiner was skipped, and evaluation_done
C10_EventOrder ==
    /\ pc = "loop" =>
          executed = StagesRun(SubSeq(plan, 1, IF step = 1 THEN 1 ELSE step - 1),
                               "refiner" \in DOMAIN meta /\ "skipped" \in DOMAIN meta["refiner"])
    /\ pc \in {"loop", "done"} =>
          /\ Len(RunEvents) = 3 + Len(executed)
          /\ \A j \in 2..Len(executed) : RunEventTypes[3 + j] = StageEvent(executed[j])
    /\ pc = "done" =>
          /\ executed = StagesRun(plan, "skipped" \in DOMAIN meta["refiner"])
          /\ SubSeq(RunEventTypes, 1, 4) = <<"tool_call", "tool_call", "tool_call", "plan_created">>
          /\ RunEvents[1].payload.tool = "classify_transcript"
          /\ RunEvents[2].payload.tool = "extract_entities"
          /\ RunEvents[3].payload.tool = "extract_action_verbs"
          /\ RunEvents[4].payload = [plan |-> plan]
          /\ RunEventTypes =
                <<"tool_call", "tool_call", "tool_call", "plan_created">>
                \o [j \in 1..Len(PlanMiddle(plan)) |-> StageEvent(PlanMiddle(plan)[j])]
                \o <<"evaluation_done">>
                \o (IF "skipped" \in DOMAIN meta["refiner"] THEN <<>> ELSE <<"refiner_applied">>)
                \o <<"evaluation_done">>

\* a run with all specialists and an executed Refiner, on a session that
\* already held events, has finished
C10_Witness ==
    /\ pc = "done"
    /\ ev0 > 0
    /\ Len(RunEvents) = 10
    /\ RunEventTypes[9] = "refiner_applied"

(***************************************************************************)
(* Properties of the memory                                                *)
(***************************************************************************)

IsPrefix(a, b) == Len(a) <= Len(b) /\ SubSeq(b, 1, Len(a)) = a

\* the last call on the memory
LastCall == calls[Len(calls)]

\* the calls i..j on the memory
CallsBetween(i, j) == {calls[n] : n \in i..j}

\* the [type, payload] passed to the add_event calls on session s among the
\* first i calls, in call order
RECURSIVE AddedBefore(_, _)
AddedBefore(s, i) ==
    IF i = 0 THEN <<>>
    ELSE AddedBefore(s, i - 1)
         \o (IF calls[i].op = "add_event" /\ calls[i].sid = s THEN <<calls[i].args>> ELSE <<>>)

\* the call that touched session s first (among the first i calls)
FirstTouch(s, i) == calls[CHOOSE j \in 1..i : calls[j].sid = s /\ calls[j].first]

\* the rows load_events returned at the first touch of s (none when it raised)
HydratedEvents(s, i) ==
    IF "load_events" \in FirstTouch(s, i).up THEN FirstTouch(s, i).held.events ELSE <<>>

\* the entries load_kv returned at the first touch of s (none when it raised)
HydratedKv(s, i) ==
    IF "load_kv" \in FirstTouch(s, i).up THEN FirstTouch(s, i).held.kv ELSE EmptyDict

\* a stage ran on session s among the first i calls
StageRanOn(s, i) == \E j \in 1..i : calls[j].op = "stage" /\ calls[j].sid = s

\* C11: every step (a put, get, add_event, events, snapshot or a stage
\* execution) leaves each session's earlier events in place: the event
\* sequence before the step is a prefix of the one after it, in the cache and,
\* for the rows, in the store
C11_Step ==
    /\ \A s \in Sessions :
          IsPrefix(memory.events_by_session[s], memory'.events_by_session[s])
    /\ IsPrefix(store.agent_events, store'.agent_events)

C11_AppendOnly == [][C11_Step]_vars

\* a session that was hydrated with an event has got further events from an
\* add_event call and from a stage
C11_Witness ==
    /\ Len(calls) = 3
    /\ \A j \in 1..3 : calls[j].sid = "s1"
    /\ calls[1].op = "add_event" /\ "load_events" \in calls[1].up
    /\ calls[2].op = "stage"
    /\ calls[3].op = "snapshot"
    /\ Len(memory.events_by_session["s1"]) > 3
    /\ memory.events_by_session["s1"][1].type = "seed"

\* C12 as stated: a snapshot after N add_event calls on the session holds
\* exactly N events, those passed in, in call order
C12_AsStated ==
    \A i \in 1..Len(calls) :
        (calls[i].op = "snapshot" /\ ~ StageRanOn(calls[i].sid, i)) =>
            /\ Len(calls[i].ret.events) = Len(AddedBefore(calls[i].sid, i))
            /\ \A k \in 1..Len(calls[i].ret.events) :
                  /\ calls[i].ret.events[k].type = AddedBefore(calls[i].sid, i)[k].type
                  /\ calls[i].ret.events[k].payload = AddedBefore(calls[i].sid, i)[k].payload

\* the events of a snapshot without their created_at
TypesAndPayloads(events) ==
    [k \in 1..Len(events) |-> [type |-> events[k].type, payload |-> events[k].payload]]

\* C12 (amended): a snapshot after N add_event calls on the session holds the
\* events hydrated at the session's first touch, as the store held them,
\* followed by exactly the N events passed in, in call order
C12_SnapshotRoundTrip ==
    \A i \in 1..Len(calls) :
        (calls[i].op = "snapshot" /\ ~ StageRanOn(calls[i].sid, i)) =>
            /\ SubSeq(calls[i].ret.events, 1, Len(HydratedEvents(calls[i].sid, i)))
                  = HydratedEvents(calls[i].sid, i)
            /\ TypesAndPayloads(calls[i].ret.events)
                  = TypesAndPayloads(HydratedEvents(calls[i].sid, i))
                    \o AddedBefore(calls[i].sid, i)

\* a snapshot of the seeded session after two add_event calls returned three
\* events
C12_Witness ==
    /\ Len(calls) = 3
    /\ calls[1].op = "add_event" /\ calls[1].sid = "s1" /\ "load_events" \in calls[1].up
    /\ calls[2].op = "add_event" /\ calls[2].sid = "s1"
    /\ calls[3].op = "snapshot" /\ calls[3].sid = "s1"
    /\ Len(calls[3].ret.events) = 3

\* C13: a put or an add_event whose mirrored write raised has returned, and
\* the cache holds what it wrote: the next get, events and snapshot on the
\* session observe the value or the event; a get, events or snapshot called
\* while store operations raise has returned what the cache holds
C13_FailedWriteCached ==
    Len(calls) > 0 =>
        /\ (LastCall.op = "put" /\ "put_kv" \notin LastCall.up) =>
              /\ LastCall.ret = "None"
              /\ MemGet(World, LastCall.sid, LastCall.args.key, MemDefault, storeUp)
                    = LastCall.args.value
              /\ MemSnapshot(World, LastCall.sid, storeUp).kv[LastCall.args.key]
                    = LastCall.args.value
        /\ (LastCall.op = "add_event" /\ "add_event" \notin LastCall.up) =>
              /\ LastCall.ret = "None"
              /\ Len(MemEvents(World, LastCall.sid, storeUp)) > 0
              /\ TypesAndPayloads(
                     <<MemEvents(World, LastCall.sid, storeUp)
                          [Len(MemEvents(World, LastCall.sid, storeUp))]>>)
                    = <<LastCall.args>>
              /\ TypesAndPayloads(
                     <<MemSnapshot(World, LastCall.sid, storeUp).events
                          [Len(MemSnapshot(World, LastCall.sid, storeUp).events)]>>)
                    = <<LastCall.args>>
        /\ (LastCall.op = "get" /\ LastCall.up # StoreOps) =>
              LastCall.ret = DictGet(memory.kv_by_session[LastCall.sid],
                                     LastCall.args.key, MemDefault)
        /\ (LastCall.op = "events" /\ LastCall.up # StoreOps) =>
              LastCall.ret = memory.events_by_session[LastCall.sid]
        /\ (LastCall.op = "snapshot" /\ LastCall.up # StoreOps) =>
              LastCall.ret.kv = memory.kv_by_session[LastCall.sid]

\* with every store operation raising, an add_event and a put were made and
\* the get that followed returned the value put, which the store does not hold
C13_Witness ==
    /\ Len(calls) = 3
    /\ calls[1].op = "add_event" /\ calls[1].sid = "s1" /\ calls[1].up = {}
    /\ calls[2].op = "put" /\ calls[2].sid = "s1" /\ calls[2].args.key = "note"
    /\ calls[3].op = "get" /\ calls[3].sid = "s1" /\ calls[3].args.key = "note"
    /\ calls[3].ret = "a"
    /\ StoreGetKv(store, "s1", "note") = "old"
    /\ Len(memory.events_by_session["s1"]) = 1

\* the calls among the first i that touched session s
Touches(s, i) == {j \in 1..i : calls[j].sid = s}

\* C14: load_kv and load_events are called at most once for each session:
\* once each when the session has been touched, whether they raised or not,
\* and never before
C14_LoadedOnce ==
    \A s \in Sessions :
        /\ loads[s].load_kv <= 1
        /\ loads[s].load_events <= 1
        /\ (Touches(s, Len(calls)) # {}) =>
              /\ loads[s] = [load_kv |-> 1, load_events |-> 1]
              /\ s \in memory.loaded_sessions
        /\ (Touches(s, Len(calls)) = {}) =>
              /\ loads[s] = [load_kv |-> 0, load_events |-> 0]
              /\ s \notin memory.loaded_sessions

\* C14, the later calls: a call on a session that was touched before leaves
\* the load counts as they are
C14_Step ==
    \A s \in Sessions : s \in memory.loaded_sessions => loads'[s] = loads[s]

C14_NoReload == [] C14_LoadedOnce /\ [][C14_Step]_vars

\* three calls on a session whose hydration failed for both tables
C14_Witness ==
    /\ Len(calls) = 3
    /\ \A j \in 1..3 : calls[j].sid = "s1"
    /\ calls[1].up = {}
    /\ calls[2].op = "get"
    /\ calls[3].op = "snapshot"
    /\ loads["s1"] = [load_kv |-> 1, load_events |-> 1]

\* the hydration of the call's session failed: it was the first touch and
\* load_kv or load_events raised
HydrationFailed(c) == c.first /\ ~ ({"load_kv", "load_events"} \subseteq c.up)

\* C15 as stated: after a first access (one that writes nothing itself)
\* whose hydration failed, the session's cache holds no kv entries and no
\* events
C15_AsStated ==
    (Len(calls) > 0 /\ HydrationFailed(LastCall)
        /\ LastCall.op \in {"get", "events", "snapshot"}) =>
        /\ memory.kv_by_session[LastCall.sid] = EmptyDict
        /\ memory.events_by_session[LastCall.sid] = <<>>

\* what the call itself wrote to the cache of its session
OwnKv(c) == IF c.op = "put" THEN DictPut(EmptyDict, c.args.key, c.args.value) ELSE EmptyDict
OwnEvents(c) == IF c.op = "add_event" THEN <<c.args>> ELSE <<>>

\* C15 (amended): after a first access whose hydration failed, the load that
\* raised has contributed nothing: the cache holds no hydrated kv entries if
\* load_kv raised and no hydrated events if load_events raised, next to what
\* the other load returned and what the access itself wrote; it is empty when
\* both raised and the access wrote nothing
C15_FailedLoadAddsNothing ==
    (Len(calls) > 0 /\ HydrationFailed(LastCall) /\ LastCall.op # "stage") =>
        /\ memory.kv_by_session[LastCall.sid] =
              DictUpdate(IF "load_kv" \in LastCall.up THEN LastCall.held.kv ELSE EmptyDict,
                         OwnKv(LastCall))
        /\ TypesAndPayloads(memory.events_by_session[LastCall.sid]) =
              TypesAndPayloads(IF "load_events" \in LastCall.up
                               THEN LastCall.held.events ELSE <<>>)
              \o OwnEvents(LastCall)
        /\ (LastCall.up = {} /\ LastCall.op \in {"get", "events", "snapshot"}) =>
              /\ memory.kv_by_session[LastCall.sid] = EmptyDict
              /\ memory.events_by_session[LastCall.sid] = <<>>
              /\ LastCall.op = "get" => LastCall.ret = MemDefault
              /\ LastCall.op = "events" => LastCall.ret = <<>>
              /\ LastCall.op = "snapshot" => LastCall.ret = [kv |-> EmptyDict, events |-> <<>>]

\* the first access of the seeded session found load_kv raising and
\* load_events working: the cache holds the seeded event and no kv entry
C15_Witness ==
    /\ Len(calls) = 1
    /\ LastCall.sid = "s1"
    /\ LastCall.op = "snapshot"
    /\ LastCall.up = {"load_events", "add_event"}
    /\ Len(memory.events_by_session["s1"]) = 1
    /\ memory.kv_by_session["s1"] = EmptyDict

\* the puts to (s, key) among the first i calls
PutsTo(s, key, i) ==
    {j \in 1..i : calls[j].op = "put" /\ calls[j].sid = s /\ calls[j].args.key = key}

\* what get(s, key, default) is to return as call i + 1: the value of the
\* most recent put to (s, key), else the value hydrated at the first touch of
\* s, else the default
Expected(s, key, default, i) ==
    IF PutsTo(s, key, i) # {} THEN calls[MaxOf(PutsTo(s, key, i))].args.value
    ELSE IF Touches(s, i) # {} /\ key \in DOMAIN HydratedKv(s, i) THEN HydratedKv(s, i)[key]
    ELSE default

\* the value the store's load_kv returns for the get that is the first touch
\* of its session, else the default
ExpectedFirst(c) ==
    IF "load_kv" \in c.up /\ c.args.key \in DOMAIN c.held.kv
    THEN c.held.kv[c.args.key]
    ELSE c.args.default

\* C16: every get returned the value of the most recent put to its (session,
\* key); with no such put it returned the value hydration provided for the
\* key, and the default when hydration provided none
C16_LastWriteWins ==
    \A i \in 1..Len(calls) :
        calls[i].op = "get" =>
            calls[i].ret =
                IF calls[i].first THEN ExpectedFirst(calls[i])
                ELSE Expected(calls[i].sid, calls[i].args.key, calls[i].args.default, i - 1)

\* two puts of different values to the key the store holds a value for, and
\* a get that returned the second
C16_Witness ==
    /\ Len(calls) = 3
    /\ \A j \in 1..3 : calls[j].sid = "s1"
    /\ calls[1].op = "put" /\ calls[1].args = [key |-> "note", value |-> "a"]
    /\ "load_kv" \in calls[1].up
    /\ calls[2].op = "put" /\ calls[2].args = [key |-> "note", value |-> "b"]
    /\ calls[3].op = "get" /\ calls[3].args.key = "note" /\ calls[3].ret = "b"

\* the memory and the store after the step
WorldNext == [memory |-> memory', store |-> store', clock |-> clock', loads |-> loads']

\* C17: a call on one session (a put, an add_event, a stage, or a read)
\* leaves every other session as it was: its kv entries and its events in the
\* cache and in the store, whether it is loaded, and its snapshot
C17_Step ==
    (Len(calls') = Len(calls) + 1) =>
        \A s \in Sessions \ {calls'[Len(calls')].sid} :
            /\ memory'.kv_by_session[s] = memory.kv_by_session[s]
            /\ memory'.events_by_session[s] = memory.events_by_session[s]
            /\ (s \in memory'.loaded_sessions) = (s \in memory.loaded_sessions)
            /\ store'.agent_kv[s] = store.agent_kv[s]
            /\ StoreLoadEvents(store'.agent_events, s) = StoreLoadEvents(store.agent_events, s)
            /\ MemSnapshot(WorldNext, s, storeUp') = MemSnapshot(World, s, storeUp)

C17_SessionsApart == [][C17_Step]_vars

\* a put, a stage and an add_event on s2, mirrored to the store, have left
\* the seeded session s1 untouched
C17_Witness ==
    /\ Len(calls) = 3
    /\ \A j \in 1..3 : calls[j].sid = "s2" /\ calls[j].up = StoreOps
    /\ calls[1].op = "put"
    /\ calls[2].op = "stage" /\ calls[2].args.name = "router"
    /\ calls[3].op = "add_event"
    /\ "s1" \notin memory.loaded_sessions
    /\ DOMAIN store.agent_kv["s1"] = {"note"}
    /\ Len(store.agent_events) > 4

(***************************************************************************)
(* Properties of a run called again                                        *)
(***************************************************************************)

\* the four fields of a result that a retry is to reproduce
Artifacts(r) ==
    [summary |-> r.summary, key_points |-> r.key_points,
     action_items |-> r.action_items, evaluation |-> r.evaluation]

\* C18: a call of run with the session id, transcript and flags of an earlier
\* call returns the summary, key_points, action_items and evaluation the
\* earlier call returned, on the memory the earlier call left and on a memory
\* constructed anew over the store it left
C18_RetrySameResult ==
    (pc = "done" /\ earlier # <<>>) =>
        \A j \in 1..Len(earlier) : Artifacts(result) = Artifacts(earlier[j])

\* a retried run on a memory constructed anew, which hydrated the kv entries
\* and the events of the first run, executed the Refiner and returned
C18_Witness ==
    /\ pc = "done"
    /\ Len(earlier) = 1
    /\ loads[session_id] = [load_kv |-> 1, load_events |-> 1]
    /\ ev0 >= 7
    /\ RefinerRan
    /\ Len(result.memory.events) > Len(earlier[1].memory.events)
    /\ result.evaluation.issues # <<>>

(***************************************************************************)
(* Properties of a run with an unregistered stage                          *)
(***************************************************************************)

\* the plan positions whose stage has no registered implementation
Unregistered == {j \in 1..Len(plan) : plan[j] \notin agents}

RECURSIVE IsSubsequence(_, _)
IsSubsequence(items, xs) ==
    IF items = <<>> THEN TRUE
    ELSE IF xs = <<>> THEN FALSE
    ELSE IF items[1] = xs[1] THEN IsSubsequence(Tail(items), Tail(xs))
    ELSE IsSubsequence(items, Tail(xs))

\* the sentences of a transcript, each with its first character upper-cased
CleanedSentences(t) == [j \in 1..Len(Sentences(t)) |-> Cleaned(Sentences(t)[j])]

\* at most 5 items, each longer than 10 characters, in the order of their
\* sentences in the transcript
WellFormedItems(items, t) ==
    /\ Len(items) <= 5
    /\ \A j \in 1..Len(items) : Len(items[j]) > 10
    /\ IsSubsequence(items, CleanedSentences(t))

\* C20 as stated: the key points and the action items of any transcript are
\* at most 5, longer than 10 characters, in sentence order, and each starts
\* with an uppercase character
C20_AsStated ==
    "key_points" \in DOMAIN probe =>
        /\ WellFormedItems(probe.key_points, probe.transcript)
        /\ WellFormedItems(probe.action_items, probe.transcript)
        /\ \A j \in 1..Len(probe.key_points) : IsUpper(Ch(probe.key_points[j], 1))
        /\ \A j \in 1..Len(probe.action_items) : IsUpper(Ch(probe.action_items[j], 1))

\* every item is a sentence of the transcript with its first character
\* upper-cased: it starts with an uppercase letter when the sentence starts
\* with a letter, and as the sentence starts otherwise
FirstUppercased(items, t) ==
    \A j \in 1..Len(items) :
        \E k \in 1..Len(Sentences(t)) :
            /\ SubSeq(items[j], 2, Len(items[j])) = SubSeq(Sentences(t)[k], 2, Len(Sentences(t)[k]))
            /\ IF IsLower(Ch(Sentences(t)[k], 1)) \/ IsUpper(Ch(Sentences(t)[k], 1))
               THEN /\ IsUpper(Ch(items[j], 1))
                    /\ LowerCh(Ch(items[j], 1)) = LowerCh(Ch(Sentences(t)[k], 1))
               ELSE Ch(items[j], 1) = Ch(Sentences(t)[k], 1)

\* C20 (amended): the key points and the action items of any transcript are
\* at most 5, longer than 10 characters, in sentence order, and each is its
\* sentence with the first character upper-cased: it starts with an
\* uppercase letter when its sentence starts with a letter, and with the
\* sentence's first character when that is no letter
C20_Items ==
    "key_points" \in DOMAIN probe =>
        /\ WellFormedItems(probe.key_points, probe.transcript)
        /\ WellFormedItems(probe.action_items, probe.transcript)
        /\ FirstUppercased(probe.key_points, probe.transcript)
        /\ FirstUppercased(probe.action_items, probe.transcript)

\* a transcript of three sentences gave two key points, the first made from
\* a sentence that starts with a lowercase letter and the second from one
\* that starts with a digit, while its sentence of 10 characters was dropped
C20_Witness ==
    /\ "key_points" \in DOMAIN probe
    /\ probe.transcript = "remember the key.\nnote this.\n3 main items will follow."
    /\ probe.key_points = <<"Remember the key.", "3 main items will follow.">>
    /\ probe.action_items = <<"3 main items will follow.">>

(***************************************************************************)
(* Properties of Summary and of classify_transcript                        *)
(***************************************************************************)

\* text is s without the whitespace at its two ends
IsTrimOf(text, s) ==
    /\ text = "" \/ (~ IsSpace(Ch(text, 1)) /\ ~ IsSpace(Ch(text, Len(text))))
    /\ \E i \in 0..Len(s) :
          /\ i + Len(text) <= Len(s)
          /\ SubSeq(s, i + 1, i + Len(text)) = text
          /\ \A j \in (1..i) \cup ((i + Len(text) + 1)..Len(s)) : IsSpace(Ch(s, j))

\* C21: Summary returns the whole transcript, trimmed and otherwise
\* unchanged, when it has at most 2 sentences, and its first 3 sentences
\* joined by single spaces when it has more
C21_Summary ==
    (probe.fn = "summary" /\ "out" \in DOMAIN probe) =>
        IF Len(Sentences(probe.transcript)) <= 2
        THEN IsTrimOf(probe.out, probe.transcript)
        ELSE probe.out = Sentences(probe.transcript)[1] \o " "
                            \o Sentences(probe.transcript)[2] \o " "
                            \o Sentences(probe.transcript)[3]

\* Summary returned the first three of four sentences that the transcript
\* separates by two spaces and by line breaks
C21_Witness ==
    /\ probe.fn = "summary" /\ "out" \in DOMAIN probe
    /\ probe.transcript = "One.  Two!\n\nThree?  Four."
    /\ probe.out = "One. Two! Three?"

\* the categories in the order of the signals table
Categories == <<"meeting", "lecture", "interview">>

\* the keywords of the category that occur in the lower-cased transcript
KeywordsIn(t, j) ==
    {k \in 1..Len(Signals[j].keywords) : Contains(StrLower(t), Signals[j].keywords[k])}

\* C22: classify_transcript scores each category by the number of its
\* keywords in the transcript and returns the first category, in the order
\* meeting, lecture, interview, whose score is the highest; it returns
\* generic exactly when every score is 0
C22_Classify ==
    (probe.fn = "classify" /\ "out" \in DOMAIN probe) =>
        /\ DOMAIN probe.out.scores = {Categories[j] : j \in 1..3}
        /\ \A j \in 1..3 :
              /\ Signals[j].label = Categories[j]
              /\ probe.out.scores[Categories[j]] = Cardinality(KeywordsIn(probe.transcript, j))
        /\ probe.out.label = "generic" <=> \A j \in 1..3 : probe.out.scores[Categories[j]] = 0
        /\ probe.out.label # "generic" =>
              \E j \in 1..3 :
                  /\ probe.out.label = Categories[j]
                  /\ \A k \in 1..3 : probe.out.scores[Categories[k]] <= probe.out.scores[Categories[j]]
                  /\ \A k \in 1..(j - 1) :
                        probe.out.scores[Categories[k]] < probe.out.scores[Categories[j]]
        /\ (/\ probe.out.scores["meeting"] = probe.out.scores["lecture"]
            /\ probe.out.scores["meeting"] > 0
            /\ probe.out.scores["interview"] <= probe.out.scores["meeting"])
              => probe.out.label = "meeting"

\* a transcript with two meeting, two lecture and two interview keywords was
\* labelled meeting
C22_Witness ==
    /\ probe.fn = "classify" /\ "out" \in DOMAIN probe
    /\ probe.out.scores = [meeting |-> 2, lecture |-> 2, interview |-> 2]
    /\ probe.out.label = "meeting"

(***************************************************************************)
(* Properties of the Refiner                                               *)
(***************************************************************************)

\* the Refiner has returned
Refined == probe.fn = "refiner" /\ "out" \in DOMAIN probe

\* the summary after the issue-driven fixes, before the entity hint
FixedSummary ==
    RefineIssues(
        [summary |-> IF "summary" \in DOMAIN probe.context
                     THEN Strip(probe.context["summary"]) ELSE "",
         key_points |-> <<>>, action_items |-> <<>>, applied |-> <<>>],
        probe.context["evaluator"].issues, probe.transcript).summary

\* the texts of the n highest-ranked stored entities
TopStored(n) == [j \in 1..Min(n, Len(probe.entities)) |-> probe.entities[j].text]

\* the parenthetical hint that names the entities
HintFor(names) == " (Context: " \o Join(names, ", ") \o ".)"

\* the Refiner recorded that it appended the hint
Hinted ==
    /\ probe.meta.applied # <<>>
    /\ probe.meta.applied[Len(probe.meta.applied)].type = "refiner_entity_context_added"

\* C23 as stated: the hint is appended iff the summary after the fixes is
\* non-empty and contains none of the top-3 stored entities, and names
\* exactly those
C23_AsStated ==
    Refined =>
        /\ Hinted <=> /\ FixedSummary # ""
                      /\ \A j \in 1..Len(TopStored(3)) : ~ Contains(FixedSummary, TopStored(3)[j])
        /\ Hinted => probe.out.summary = FixedSummary \o HintFor(TopStored(3))

\* C23 (amended): the hint is appended iff the summary after the fixes is
\* non-empty, at least one entity is stored and the summary contains none of
\* the top-5 stored entities; the hint names exactly the top-3; without the
\* hint the summary is the one after the fixes
C23_Hint ==
    Refined =>
        /\ Hinted <=> /\ FixedSummary # ""
                      /\ probe.entities # <<>>
                      /\ \A j \in 1..Len(TopStored(5)) : ~ Contains(FixedSummary, TopStored(5)[j])
        /\ Hinted =>
              /\ probe.out.summary = FixedSummary \o HintFor(TopStored(3))
              /\ probe.meta.applied[Len(probe.meta.applied)].entities = TopStored(3)
        /\ ~ Hinted =>
              /\ probe.out.summary = FixedSummary
              /\ \A j \in 1..Len(probe.meta.applied) :
                    probe.meta.applied[j].type # "refiner_entity_context_added"
        /\ probe.meta.entities_used = TopStored(3)

\* with six entities stored, a summary that mentions only the sixth got the
\* hint naming the first three
C23_Witness ==
    /\ Refined
    /\ Len(probe.entities) = 6
    /\ probe.context["evaluator"].issues = <<>>
    /\ "summary" \in DOMAIN probe.context
    /\ probe.context["summary"] = "Ask Frank."
    /\ probe.out.summary = "Ask Frank. (Context: Alice, Bob, Carol.)"

\* the issues the Refiner was given
GivenIssues == probe.context["evaluator"].issues

HasIssue(type) == \E j \in 1..Len(GivenIssues) : GivenIssues[j].type = type

\* the corrections of the recognized issues, in the order of the issues
RECURSIVE CorrectionsFor(_)
CorrectionsFor(issues) ==
    IF issues = <<>> THEN <<>>
    ELSE (CASE issues[1].type = "empty_summary" -> <<[type |-> "refiner_filled_summary"]>>
            [] issues[1].type = "too_many_key_points" ->
                  <<[type |-> "refiner_trim_key_points", to |-> 5]>>
            [] issues[1].type = "too_many_action_items" ->
                  <<[type |-> "refiner_trim_action_items", to |-> 5]>>
            [] OTHER -> <<>>)
         \o CorrectionsFor(Tail(issues))

\* the corrections recorded for the issues: all but a recorded entity hint
IssueCorrections ==
    IF Hinted THEN SubSeq(probe.meta.applied, 1, Len(probe.meta.applied) - 1)
    ELSE probe.meta.applied

\* the first 5 items of the list when the issue was reported, else the list
TrimmedIf(type, key) ==
    IF HasIssue(type)
    THEN [j \in 1..Min(5, Len(CtxList(probe.context, key))) |-> CtxList(probe.context, key)[j]]
    ELSE CtxList(probe.context, key)

\* the first one or two sentences of the transcript, the trimmed transcript
\* when it has no sentence
FirstSentences(t) ==
    IF Len(Sentences(t)) = 0 THEN Strip(t)
    ELSE IF Len(Sentences(t)) = 1 THEN Sentences(t)[1]
    ELSE Sentences(t)[1] \o " " \o Sentences(t)[2]

\* the summary the issues leave: regenerated for empty_summary, else the
\* context's (trimmed, empty when absent)
SummaryLeft ==
    IF HasIssue("empty_summary") THEN FirstSentences(probe.transcript)
    ELSE IF "summary" \in DOMAIN probe.context THEN Strip(probe.context["summary"])
    ELSE ""

\* C24: the Refiner records one correction per recognized issue, in the
\* order of the issues, and none for an unrecognized one; empty_summary
\* regenerates the summary from the first one or two sentences,
\* too_many_key_points and too_many_action_items keep the first 5 items, a
\* list without its issue is returned as given; one refiner_applied event is
\* appended, holding the corrections
C24_Refiner ==
    Refined =>
        /\ IssueCorrections = CorrectionsFor(GivenIssues)
        /\ probe.out.key_points = TrimmedIf("too_many_key_points", "key_points")
        /\ probe.out.action_items = TrimmedIf("too_many_action_items", "action_items")
        /\ probe.out.summary =
              SummaryLeft \o (IF Hinted THEN HintFor(TopStored(3)) ELSE "")
        /\ Len(memory.events_by_session["s1"]) = probe.before + 1
        /\ memory.events_by_session["s1"][probe.before + 1].type = "refiner_applied"
        /\ memory.events_by_session["s1"][probe.before + 1].payload
              = [applied |-> probe.meta.applied]

\* given too_many_action_items, then too_many_key_points, on lists of 8 and
\* 9 items, the Refiner cut both to 5 and recorded the two corrections in
\* that order
C24_Witness ==
    /\ Refined
    /\ Len(GivenIssues) = 2
    /\ GivenIssues[1].type = "too_many_action_items"
    /\ GivenIssues[2].type = "too_many_key_points"
    /\ Len(CtxList(probe.context, "key_points")) = 9
    /\ Len(CtxList(probe.context, "action_items")) = 8
    /\ Len(probe.out.key_points) = 5
    /\ Len(probe.out.action_items) = 5
    /\ IssueCorrections = <<[type |-> "refiner_trim_action_items", to |-> 5],
                            [type |-> "refiner_trim_key_points", to |-> 5]>>

(***************************************************************************)
(* Properties of every run                                                 *)
(***************************************************************************)

\* C25: Summary is the second stage of every plan and has executed exactly
\* once in every finished run, whatever include_summary is: the plan is the
\* one the opposite value of the flag gives, and the result's summary is the
\* summary of the working context, never absent
C25_SummaryAlways ==
    /\ pc \in {"loop", "done"} =>
          /\ Len(plan) >= 2 /\ plan[2] = "summary"
          /\ outputs["router"].plan_hints.prefer_summary
          /\ plan = BuildPlan([flags EXCEPT !.include_summary = ~ @],
                              outputs["router"].plan_hints)
    /\ pc = "done" =>
          /\ Cardinality({j \in 1..Len(executed) : executed[j] = "summary"}) = 1
          /\ "summary" \in DOMAIN outputs
          /\ result.summary = outputs["summary"]
          /\ result.summary # "None"

\* a run with every flag false on a generic transcript returned a summary
C25_Witness ==
    /\ pc = "done"
    /\ flags = [include_summary |-> FALSE, include_key_points |-> FALSE,
                include_action_items |-> FALSE]
    /\ transcript = T_Generic
    /\ plan = <<"router", "summary", "evaluator", "refiner", "evaluator">>
    /\ result.summary = "hello there"

\* the types of the issues of an Evaluator output
TypesOf(evaluation) == {evaluation.issues[j].type : j \in 1..Len(evaluation.issues)}

ResultArtifact(outs) ==
    [summary |-> outs["summary"],
     key_points |-> CtxList(outs, "key_points"),
     action_items |-> CtxList(outs, "action_items")]

\* C27 (state part): every result returns what the specialists produced; the
\* Refiner has executed exactly in the runs whose transcript is empty after
\* trimming, has recorded no entity hint, and the trailing Evaluator reports
\* the issues the first one reported
C27_ResultIsSpecialists ==
    pc = "done" =>
        /\ result.summary = SpecialistArtifact.summary
        /\ result.key_points = SpecialistArtifact.key_points
        /\ result.action_items = SpecialistArtifact.action_items
        /\ RefinerRan <=> Strip(transcript) = ""
        /\ RefinerRan =>
              /\ \A j \in 1..Len(meta["refiner"].applied) :
                    meta["refiner"].applied[j].type # "refiner_entity_context_added"
              /\ outputs["refiner"].summary = SpecialistArtifact.summary
              /\ outputs["refiner"].key_points = SpecialistArtifact.key_points
              /\ outputs["refiner"].action_items = SpecialistArtifact.action_items
        /\ evals[2].issues = evals[1].issues

\* C27 (step part): the step at the Refiner position, executed or skipped,
\* leaves the summary, key_points and action_items that run returns as they
\* were
C27_RefinerKeepsArtifact ==
    (pc = "loop" /\ step <= Len(plan) /\ plan[step] = "refiner") =>
        ResultArtifact(outputs') = ResultArtifact(outputs)

SeededEvents(sid) == StoreLoadEvents(SeededStore.agent_events, sid)

Finished == probe.finished

\* the session's event log from the event after those a run found at its
\* entry to the last one its result holds
BlockOf(f) == SubSeq(f.result.memory.events, f.from + 1, Len(f.result.memory.events))

\* the event types a run appends: the Router's three tool calls, the plan,
\* and one event per stage executed after the Router
OwnTypes(f) ==
    <<"tool_call", "tool_call", "tool_call", "plan_created">>
    \o [j \in 1..(Len(f.executed) - 1) |-> StageEvent(f.executed[j + 1])]

\* each returned run's events stand in one block of the log, in the order of
\* its plan, and the blocks follow one another in the order the runs entered
Contiguous ==
    /\ \A i \in 1..Len(Finished) :
          /\ [j \in 1..Len(BlockOf(Finished[i])) |-> BlockOf(Finished[i])[j].type]
                = OwnTypes(Finished[i])
          /\ BlockOf(Finished[i])[4].payload = [plan |-> Finished[i].plan]
          /\ Finished[i].executed
                = StagesRun(Finished[i].plan,
                            "skipped" \in DOMAIN Finished[i].result.agent_meta["refiner"])
          /\ TypesAndPayloads(SubSeq(memory.events_by_session["s1"], 1,
                                     Len(Finished[i].result.memory.events)))
                = TypesAndPayloads(Finished[i].result.memory.events)
    /\ \A i \in 2..Len(Finished) :
          Finished[i].from = Len(Finished[i - 1].result.memory.events)

\* a result with the timestamps of its events left out
Untimed(r) == [r EXCEPT !.memory.events = TypesAndPayloads(@)]

\* what a run produced: the artefact, the evaluation and the stages' meta
Produced(r) ==
    [summary |-> r.summary, key_points |-> r.key_points, action_items |-> r.action_items,
     evaluation |-> r.evaluation, agent_meta |-> r.agent_meta]

\* C28 as the specification states it: the runs' event blocks are contiguous
\* and in plan order, and the whole result of a run, timestamps apart, is
\* determined by its transcript and flags
C28_AsStated ==
    /\ Contiguous
    /\ \A i, j \in 1..Len(Finished) :
          Finished[i].args = Finished[j].args
             => Untimed(Finished[i].result) = Untimed(Finished[j].result)

\* C28: runs started together on one event loop, on one orchestrator and one
\* session, do not interleave: each run's audit events form one contiguous
\* block of the session's event log, in the run's plan order; the summary,
\* key_points, action_items, evaluation and agent_meta a run returns are
\* determined by its own transcript and flags, while the memory.events it
\* returns begin with all the events the runs before it returned
C28_NoInterleaving ==
    /\ Contiguous
    /\ \A i, j \in 1..Len(Finished) :
          /\ Finished[i].args = Finished[j].args
                => Produced(Finished[i].result) = Produced(Finished[j].result)
          /\ i < j =>
                /\ Len(Finished[j].result.memory.events)
                      > Len(Finished[i].result.memory.events)
                /\ SubSeq(Finished[j].result.memory.events, 1,
                          Len(Finished[i].result.memory.events))
                      = Finished[i].result.memory.events

\* two runs started together on a session the store held an event of have
\* both returned, the first over the interview transcript with every flag
\* set, the second over the blank transcript with its Refiner executed
C28_Witness ==
    /\ probe.fn = "loop"
    /\ Len(probe.finished) = 2
    /\ probe.queue = <<>>
    /\ probe.finished[1].args.transcript = T_Interview
    /\ probe.finished[1].args.flags.include_key_points
    /\ probe.finished[1].from = 1
    /\ probe.finished[2].args.transcript = T_Blank
    /\ \E k \in 1..Len(probe.finished[2].executed) : probe.finished[2].executed[k] = "refiner"
    /\ probe.finished[2].from = Len(probe.finished[1].result.memory.events)

(***************************************************************************)
(* Properties of runs that follow one another on a session                 *)
(***************************************************************************)

\* the keys the Router writes
RouterKeys == {"classification", "entities", "action_verbs", "plan_hints"}

\* the run that has returned holds the events the run before it returned,
\* and after them its own: the Router's three tool calls, the plan and one
\* event per stage executed after the Router
Accumulated ==
    /\ ev0 = Len(earlier[Len(earlier)].result.memory.events)
    /\ SubSeq(result.memory.events, 1, ev0) = earlier[Len(earlier)].result.memory.events
    /\ [j \in 1..(Len(result.memory.events) - ev0) |-> result.memory.events[ev0 + j].type]
          = <<"tool_call", "tool_call", "tool_call", "plan_created">>
            \o [j \in 1..(Len(executed) - 1) |-> StageEvent(executed[j + 1])]

\* the Router's four keys hold what the Router of the run that has returned
\* wrote
LatestRouterValues ==
    \A k \in RouterKeys :
        /\ k \in DOMAIN result.memory.kv
        /\ result.memory.kv[k] = router_result.output[k]

\* no store operation has failed since the first run began
StoreNeverFailed ==
    /\ storeUp = StoreOps
    /\ \A n \in 1..Len(earlier) : earlier[n].up = StoreOps

====
